---------------------------- MODULE Spec2Model ----------------------------
(***************************************************************************)
(* A model of cachified: the orchestration of cache reads, fresh-value     *)
(* production, pending-value deduplication and background revalidation.    *)
(*                                                                         *)
(* Every cachified call is a process.  An await of the source is a         *)
(* suspension point: the store operation (a Map in the tests) acts when it *)
(* is issued and the continuation runs in a later step.  Steps that touch  *)
(* no shared state between two awaits are folded into the continuation     *)
(* that follows them.                                                      *)
(***************************************************************************)
EXTENDS Integers, FiniteSets, Sequences, TLC

\* ------------------------------------------------------------- bounds
MaxCalls == 3
MaxTime == 4
\* the calls made and the last instant in the specification of softPurge
MaxPurgeCalls == 2
MaxPurgeTime == 2
\* the calls the application makes and the last finite instant in the
\* specification of the infinite stale window
MaxInfiniteCalls == 2
MaxInfiniteTime == 2
\* the last instant of the specification of migrated values
MaxMigrateTime == 2
\* the last finite instant at which isExpired is evaluated
MaxProbeTime == 5
MaxStaleRejectTime == 3
MaxStaleRejectCalls == 2
MaxLiveCalls == 2
\* the last instant of the fallback specification
MaxFallbackTime == 2
\* the calls made in the specification of validators
MaxValidateCalls == 2
\* the calls the application makes in the specification of the time to live
MaxTtlCalls == 2
\* the last instant of the specification of store faults
MaxFaultsTime == 1

\* ------------------------------------------------------------- values
\* JavaScript's Infinity (above every finite sum the model forms) and null.
Infinity == 1000
Null == -1000
\* `undefined` for an option that was not given.
Undefined == -2000

Calls == 1 .. MaxCalls
NoCall == 0
Times == 0 .. MaxTime

Keys == {"k1", "k2", "k3"}
Stores == {"s1", "s2"}
Slots == Stores \X Keys

\* a + b in JavaScript numbers, as far as the model needs Infinity
Plus(a, b) ==
    IF a = Infinity \/ b = Infinity THEN Infinity ELSE a + b

\* x || 0 for a number or null
OrZero(x) ==
    IF x = Null \/ x = Undefined THEN 0 ELSE x

\* ------------------------------------------------------------- metadata
\* common.ts createCacheMetaData: Infinity is stored as null
createCacheMetaData(ttl, swr, createdTime) ==
    [ttl |-> IF ttl = Infinity \/ ttl = Undefined THEN Null ELSE ttl,
     swr |-> IF swr = Infinity THEN Null ELSE IF swr = Undefined THEN 0 ELSE swr,
     createdTime |-> createdTime]

NoMeta == [ttl |-> Null, swr |-> Null, createdTime |-> 0]

\* common.ts staleWhileRevalidate(metadata): swr || null
staleWhileRevalidate(metadata) ==
    IF metadata.swr = 0 THEN Null ELSE metadata.swr

\* mutant: an entry is no longer fresh at createdTime + ttl
isExpiredStrict(metadata, t) ==
    IF metadata.ttl = Null
    THEN "fresh"
    ELSE LET validUntil == Plus(metadata.createdTime, OrZero(metadata.ttl))
             staleUntil == Plus(validUntil, OrZero(staleWhileRevalidate(metadata)))
         IN  IF t < validUntil THEN "fresh"
             ELSE IF t <= staleUntil THEN "stale"
             ELSE "expired"

\* isExpired.ts isExpired: "fresh" is false, "stale" is 'stale', "expired" is true
isExpired(metadata, t) ==
    IF metadata.ttl = Null
    THEN "fresh"
    ELSE LET validUntil == Plus(metadata.createdTime, OrZero(metadata.ttl))
             staleUntil == Plus(validUntil, OrZero(staleWhileRevalidate(metadata)))
         IN  IF t <= validUntil THEN "fresh"
             ELSE IF t <= staleUntil THEN "stale"
             ELSE "expired"

\* mutant: a stale entry is to be refreshed now
shouldRefreshStaleIsNow(metadata, t) ==
    LET expired == isExpired(metadata, t)
    IN  IF expired = "fresh" THEN "fresh" ELSE "now"

\* isExpired.ts shouldRefresh: 'now' for expired
shouldRefresh(metadata, t) ==
    LET expired == isExpired(metadata, t)
    IN  IF expired = "expired" THEN "now" ELSE expired

\* ------------------------------------------------------------- the store
EmptyEntry == [kind |-> "empty", value |-> 0, metadata |-> NoMeta]
Malformed == [kind |-> "malformed", value |-> 0, metadata |-> NoMeta]
\* the rejection of a store operation, as the result of a read
StoreError == [kind |-> "error", value |-> 0, metadata |-> NoMeta]

\* common.ts createCacheEntry
createCacheEntry(value, metadata) ==
    [kind |-> "entry", value |-> value,
     metadata |-> createCacheMetaData(metadata.ttl, metadata.swr, metadata.createdTime)]

\* ------------------------------------------------------------- options
FbTrue == [t |-> "bool", n |-> 1]
FbFalse == [t |-> "bool", n |-> 0]
FbUndefined == [t |-> "undefined", n |-> 0]
FbNumber(n) == [t |-> "number", n |-> n]

\* common.ts createContext: the fallback allowance as a number
fallbackToCacheOf(fb) ==
    IF fb.t = "bool" THEN (IF fb.n = 1 THEN Infinity ELSE 0)
    ELSE IF fb.t = "undefined" THEN Infinity
    ELSE fb.n

NoOpts ==
    [cache |-> "s1", key |-> "k1", forceFresh |-> FALSE, fallbackToCache |-> FbUndefined,
     ttl |-> Undefined, swr |-> Undefined, staleRefreshTimeout |-> 0,
     rejects |-> {}, rejectAs |-> "false", background |-> FALSE, parent |-> 0,
     param |-> 0, migrates |-> {}]

\* common.ts createContext: swr ?? staleWhileRevalidate ?? 0
staleWhileRevalidateOf(o) ==
    IF o.swr = Undefined THEN 0 ELSE o.swr

\* the value a validator migrates the value v to
Migrated(v) == v + 10

\* mutant: the reason a validator gives is dropped
checkValueUnknown(o, value) ==
    IF value \in o.rejects
    THEN [success |-> FALSE, value |-> value, migrated |-> FALSE, reason |-> "unknown"]
    ELSE IF value \in o.migrates
    THEN [success |-> TRUE, value |-> Migrated(value), migrated |-> TRUE,
          reason |-> "none"]
    ELSE [success |-> TRUE, value |-> value, migrated |-> FALSE, reason |-> "none"]

\* checkValue.ts checkValue with a validator that rejects the values in
\* o.rejects the way o.rejectAs says: by returning false (the reason is then
\* 'unknown'), by returning a reason string, or by throwing, and that returns
\* migrate(Migrated(value)) for the values in o.migrates
checkValue(o, value) ==
    IF value \in o.rejects
    THEN [success |-> FALSE, value |-> value, migrated |-> FALSE,
          reason |-> IF o.rejectAs = "false" THEN "unknown" ELSE o.rejectAs]
    ELSE IF value \in o.migrates
    THEN [success |-> TRUE, value |-> Migrated(value), migrated |-> TRUE,
          reason |-> "none"]
    ELSE [success |-> TRUE, value |-> value, migrated |-> FALSE, reason |-> "none"]

\* ------------------------------------------------------------- outcomes
\* A promise is unsettled, fulfilled with a value or rejected with an error.
\* The value a production of call c returns is c; what it throws is error c.
\* An error has a cause: the reason of the validator for a failed check.
Unsettled == [st |-> "none", v |-> 0, kind |-> "none", cause |-> "none"]
Ok(v) == [st |-> "ok", v |-> v, kind |-> "value", cause |-> "none"]
Thrown(c) == [st |-> "err", v |-> c, kind |-> "thrown", cause |-> "none"]
CheckFailed(c, reason) == [st |-> "err", v |-> c, kind |-> "check failed", cause |-> reason]
StoreThrew(c) == [st |-> "err", v |-> c, kind |-> "store", cause |-> "none"]
Structural(c) == [st |-> "err", v |-> c, kind |-> "structural", cause |-> "none"]

\* ------------------------------------------------------------- createBatch
\* createBatch.ts: requests holds, for each invocation of a producer function,
\* the parameter and the call whose promise it settles; handled holds the
\* parameters whose producer has tried to submit; params is what the bulk
\* producer was invoked with, invocations how often it was invoked, running
\* whether it has not yet returned, outcome whether it "returned" or "threw",
\* submitCalls how often the application called submit, and promise the state
\* of the promise that call returned.
NoBatch ==
    [requests |-> <<>>, count |-> 0, submitted |-> FALSE, autoSubmit |-> TRUE,
     handled |-> {}, params |-> <<>>, invocations |-> 0, running |-> FALSE,
     outcome |-> "none", submitCalls |-> 0, promise |-> "none"]

\* the error the bulk producer throws
BatchError == 0

\* createBatch.ts submit, up to the await of getFreshValues
submit(b) ==
    IF b.count # 0 THEN [b EXCEPT !.autoSubmit = TRUE]
    ELSE IF b.submitted THEN b
    ELSE IF Len(b.requests) = 0 THEN [b EXCEPT !.submitted = TRUE]
    ELSE [b EXCEPT !.submitted = TRUE,
                   !.params = [i \in 1 .. Len(b.requests) |-> b.requests[i][1]],
                   !.invocations = @ + 1,
                   !.running = TRUE]

\* mutant: the batch is submitted without regard to autoSubmit
trySubmittingAlways(b) ==
    submit([b EXCEPT !.count = @ - 1])

\* createBatch.ts trySubmitting
trySubmitting(b) ==
    LET counted == [b EXCEPT !.count = @ - 1]
    IN  IF ~counted.autoSubmit THEN counted ELSE submit(counted)

\* createBatch.ts: the producer function add returned is invoked by call c
invokeProducer(b, param, c) ==
    LET pushed == [b EXCEPT !.requests = Append(@, <<param, c>>)]
    IN  IF param \in b.handled
        THEN pushed
        ELSE trySubmitting([pushed EXCEPT !.handled = @ \cup {param}])

\* createBatch.ts: the HANDLE callback of the producer function
handle(b, param) ==
    IF param \in b.handled
    THEN b
    ELSE trySubmitting([b EXCEPT !.handled = @ \cup {param}])

\* ------------------------------------------------------------- side tasks
\* no softPurge call was made; at is the time of its cache.set and seen
\* (history) how the entry it read was classified, both once it got there
NoPurge ==
    [pc |-> "idle", cache |-> "s1", key |-> "k1", swr |-> Undefined,
     entry |-> EmptyEntry, written |-> EmptyEntry, at |-> -1, outcome |-> "none",
     seen |-> "none"]

\* the call scheduled no write of a migrated value
NoRewrite == [pc |-> "none", value |-> 0, cached |-> EmptyEntry]

\* isExpired was not evaluated
NoProbe == [metadata |-> NoMeta, now |-> 0, expired |-> "none"]

VARIABLES
    now,        \* Date.now()
    store,      \* the cache: [Slots -> entry]
    pending,    \* pendingValuesByCache: [Slots -> the call that registered, or NoCall]
    opts,       \* the options of each call
    pc,         \* where the cachified function of each call stands
    metadata,   \* context.metadata of each call
    cached,     \* what the call's cache.get returned
    waitOn,     \* the call whose freshValue promise this call awaits
    result,     \* the outcome of a call that returned without awaiting a freshValue
    invoked,    \* 0, or k when the call's production function was the k-th invoked
    gpc,        \* where the getFreshValue function of each call stands
    gval,       \* the value held by getFreshValue
    gfv,        \* the outcome of the getFreshValue function
    race,       \* the outcome of Promise.race([getFreshValue, resolveFromFuture])
    fresh,      \* the outcome of freshValue, the race after its finally
    prev,       \* the earlier call whose resolve is fed by this call's freshValue
    refresh,    \* the time at which the background refresh a call scheduled is
                \* due, or -1
    sawPending, \* history: the call whose pending value was registered with fresh
                \* metadata when this call reached the pending values, or NoCall
    served,     \* history: how the entry the call read was classified
    beat,       \* history: getFreshValue fulfilled while the getFreshValue of the
                \* earlier call it is hooked into had not settled
    informed,   \* history: the fulfilled freshValue reached the earlier call it is
                \* hooked into while that call's race had not settled
    producedAt, \* history: when the call's production function returned, or -1
    fallbackAt, \* history: when the call's fallback read of the cache returned, or -1
    batch,      \* the batch of createBatch: requests, count, submitted, ...
    request,    \* the outcome of the promise the producer function of the batch
                \* returned to each call
    wrote,      \* history: what became of the write of the call's value: "set" when
                \* cache.set was called, "threw" when it threw, "skipped", "no"
                \* when the check failed, "none" before
    purge,      \* the softPurge call: where it stands, its options, what it read
    rewrite,    \* the task each call scheduled to write a migrated value back
    probe       \* an isExpired evaluation: its arguments and its result

envVars == <<now, store, pending>>
callVars == <<opts, pc, metadata, cached, waitOn, result, invoked>>
freshVars == <<gpc, gval, gfv, race, fresh, prev>>
histVars == <<sawPending, served, beat, informed, producedAt, fallbackAt, wrote>>
batchVars == <<batch, request>>
sideVars == <<purge, rewrite, probe>>
vars == <<envVars, callVars, freshVars, refresh, histVars, batchVars, sideVars>>

\* mutant: one registry and one store for every cache
SlotOfKey(c) == <<"s1", opts[c].key>>

Slot(c) == <<opts[c].cache, opts[c].key>>

\* the state before the first call, for a store with the given content, a
\* batch created with the given autoSubmit and the given arguments of isExpired
InitProbeWith(content, autoSubmit, arguments) ==
    /\ now = 0
    /\ store = content
    /\ pending = [s \in Slots |-> NoCall]
    /\ opts = [c \in Calls |-> NoOpts]
    /\ pc = [c \in Calls |-> "idle"]
    /\ metadata = [c \in Calls |-> NoMeta]
    /\ cached = [c \in Calls |-> EmptyEntry]
    /\ waitOn = [c \in Calls |-> NoCall]
    /\ result = [c \in Calls |-> Unsettled]
    /\ invoked = [c \in Calls |-> 0]
    /\ gpc = [c \in Calls |-> "none"]
    /\ gval = [c \in Calls |-> 0]
    /\ gfv = [c \in Calls |-> Unsettled]
    /\ race = [c \in Calls |-> Unsettled]
    /\ fresh = [c \in Calls |-> Unsettled]
    /\ prev = [c \in Calls |-> NoCall]
    /\ refresh = [c \in Calls |-> -1]
    /\ sawPending = [c \in Calls |-> NoCall]
    /\ served = [c \in Calls |-> "none"]
    /\ beat = [c \in Calls |-> FALSE]
    /\ informed = [c \in Calls |-> FALSE]
    /\ producedAt = [c \in Calls |-> -1]
    /\ fallbackAt = [c \in Calls |-> -1]
    /\ wrote = [c \in Calls |-> "none"]
    /\ batch = [NoBatch EXCEPT !.autoSubmit = autoSubmit]
    /\ request = [c \in Calls |-> Unsettled]
    /\ purge = NoPurge
    /\ rewrite = [c \in Calls |-> NoRewrite]
    /\ probe = arguments

\* the state before the first call, for a store with the given content and a
\* batch created with the given autoSubmit
InitBatchWith(content, autoSubmit) ==
    InitProbeWith(content, autoSubmit, NoProbe)

\* the state before the first call, for a store with the given content
InitWith(content) ==
    InitBatchWith(content, TRUE)

EmptyStore == [s \in Slots |-> EmptyEntry]

Init ==
    InitWith(EmptyStore)

\* time passes, up to the last instant of the specification
Tick(last) ==
    /\ now < last
    /\ now' = now + 1
    /\ UNCHANGED <<store, pending, callVars, freshVars, refresh, histVars,
                   batchVars, sideVars>>

\* the clock jumps to the far future
TickToInfinity ==
    /\ now < Infinity
    /\ now' = Infinity
    /\ UNCHANGED <<store, pending, callVars, freshVars, refresh, histVars,
                   batchVars, sideVars>>

\* ------------------------------------------------------------- cachified
\* mutant: a pending value is never taken
usePendingNever(p, t) ==
    FALSE

\* mutant: a pending value is taken whatever its metadata
usePendingAlways(p, t) ==
    p # NoCall

\* cachified.ts: a pending value is taken when its metadata is not to be refreshed
usePending(p, t) ==
    /\ p # NoCall
    /\ shouldRefresh(metadata[p], t) = "fresh"

\* The freshness classification as the specification states it: fresh up to
\* createdTime + ttl, stale up to createdTime + ttl + staleWhileRevalidate.
Classify(m, t) ==
    IF m.ttl = Null \/ t <= m.createdTime + m.ttl THEN "fresh"
    ELSE IF m.swr = Null \/ t <= m.createdTime + m.ttl + m.swr THEN "stale"
    ELSE "expired"

\* the call whose pending value is registered for s with metadata still fresh
FreshPending(s) ==
    IF pending[s] # NoCall /\ Classify(metadata[pending[s]], now) = "fresh"
    THEN pending[s] ELSE NoCall

\* cachified.ts, the block after the cache was found unusable, run without an
\* await: take the pending value of the key, or invoke the production, race it
\* against a later call's value, hook into the earlier pending entry and register.
freshOrPending(c, o) ==
    LET s == <<o.cache, o.key>>
        p == pending[s]
    IN  IF usePending(p, now)
        THEN /\ waitOn' = [waitOn EXCEPT ![c] = p]
             /\ pc' = [pc EXCEPT ![c] = "await"]
             /\ sawPending' = [sawPending EXCEPT ![c] = FreshPending(s)]
             /\ UNCHANGED <<pending, invoked, gpc, prev, batch>>
        ELSE /\ invoked' = [invoked EXCEPT ![c] = Cardinality({d \in Calls : invoked[d] > 0}) + 1]
             /\ batch' = IF o.param = 0 THEN batch ELSE invokeProducer(batch, o.param, c)
             /\ sawPending' = [sawPending EXCEPT ![c] = FreshPending(s)]
             /\ gpc' = [gpc EXCEPT ![c] = "production"]
             /\ prev' = [prev EXCEPT ![c] = p]
             /\ pending' = [pending EXCEPT ![s] = c]
             /\ waitOn' = [waitOn EXCEPT ![c] = c]
             /\ pc' = [pc EXCEPT ![c] = "await"]

\* cachified(options): the context is created; a forced call goes on to the
\* pending values at once, any other call issues cache.get and awaits it.
enter(c, o, getThrows) ==
    /\ pc[c] = IF o.param # 0 /\ ~o.background THEN "added" ELSE "idle"
    /\ \A d \in Calls : d < c => pc[d] # "idle"
    /\ opts' = [opts EXCEPT ![c] = o]
    /\ metadata' = [metadata EXCEPT ![c] =
            createCacheMetaData(o.ttl, staleWhileRevalidateOf(o), now)]
    /\ IF o.forceFresh
       THEN /\ freshOrPending(c, o)
            /\ UNCHANGED cached
       ELSE /\ cached' = [cached EXCEPT ![c] =
                    IF getThrows THEN StoreError ELSE store[<<o.cache, o.key>>]]
            /\ pc' = [pc EXCEPT ![c] = "get"]
            /\ UNCHANGED <<pending, waitOn, invoked, gpc, prev, sawPending, batch>>
    /\ UNCHANGED <<now, store, result, gval, gfv, race, fresh, refresh, served, beat,
                   informed, producedAt, fallbackAt, wrote,
                   request, sideVars>>

\* a call made by the application
cachified(c, o, getThrows) ==
    enter(c, o, getThrows)

\* the background refreshes started for the stale read of call p
Children(p) ==
    {d \in Calls : pc[d] # "idle" /\ opts[d].background /\ opts[d].parent = p}

\* mutant: the refresh does not wait for staleRefreshTimeout
refreshValueAtOnce(c, parent) ==
    /\ refresh[parent] >= 0
    /\ Children(parent) = {}
    /\ enter(c, [opts[parent] EXCEPT !.forceFresh = TRUE, !.fallbackToCache = FbFalse,
                                     !.background = TRUE, !.parent = parent], FALSE)

\* getCachedValue.ts: the scheduled refresh runs cachified with the context of
\* the call that read the stale entry, forced and without a fallback
refreshValue(c, parent) ==
    /\ refresh[parent] >= 0
    /\ now >= refresh[parent]
    /\ Children(parent) = {}
    /\ enter(c, [opts[parent] EXCEPT !.forceFresh = TRUE, !.fallbackToCache = FbFalse,
                                     !.background = TRUE, !.parent = parent], FALSE)

\* mutant: the key of an unusable entry is not deleted
deleteKeyKeeps(c, delThrows) ==
    /\ pc' = [pc EXCEPT ![c] = "delete"]
    /\ UNCHANGED <<store, result>>

\* cache.delete(key) is issued: the Map drops the key, or the store throws and
\* the call rejects with it
deleteKey(c, delThrows) ==
    IF delThrows
    THEN /\ result' = [result EXCEPT ![c] = StoreThrew(c)]
         /\ pc' = [pc EXCEPT ![c] = "done"]
         /\ UNCHANGED store
    ELSE /\ store' = [store EXCEPT ![Slot(c)] = EmptyEntry]
         /\ pc' = [pc EXCEPT ![c] = "delete"]
         /\ UNCHANGED result

\* mutant: every entry served from the cache is refreshed in the background
staleRefreshAlways(expired, o) ==
    TRUE

\* mutant: only a stale entry is served and refreshed
staleRefreshOnlyStale(expired, o) ==
    expired = "stale"

\* getCachedValue.ts staleRefresh: a stale entry is served and refreshed, and
\* so is an expired one when the call's staleWhileRevalidate is Infinity
staleRefresh(expired, o) ==
    \/ expired = "stale"
    \/ (expired = "expired" /\ staleWhileRevalidateOf(o) = Infinity)

\* getCachedValue.ts: the continuation of `await getCacheEntry(context, report)`
getCachedValue(c, delThrows) ==
    /\ pc[c] = "get"
    /\ LET entry == cached[c]
           expired == isExpired(entry.metadata, now)
           refreshes == staleRefresh(expired, opts[c])
           valueCheck == checkValue(opts[c], entry.value)
           accepted == /\ entry.kind = "entry"
                       /\ (expired = "fresh" \/ refreshes)
                       /\ valueCheck.success
       IN  /\ rewrite' = IF accepted /\ valueCheck.migrated
                         THEN [rewrite EXCEPT ![c] = [NoRewrite EXCEPT
                                   !.pc = "sleep", !.value = valueCheck.value]]
                         ELSE rewrite
           /\ CASE entry.kind \in {"error", "malformed"} ->
                     /\ deleteKey(c, delThrows)
                     /\ UNCHANGED <<pending, waitOn, invoked, gpc, prev, refresh,
                                    sawPending, served, batch>>
                [] entry.kind = "empty" ->
                     /\ freshOrPending(c, opts[c])
                     /\ UNCHANGED <<store, result, refresh, served>>
                [] OTHER ->
                     /\ served' = [served EXCEPT ![c] = Classify(entry.metadata, now)]
                     /\ refresh' = [refresh EXCEPT ![c] =
                            IF refreshes THEN now + opts[c].staleRefreshTimeout ELSE @]
                     /\ IF expired = "fresh" \/ refreshes
                        THEN IF valueCheck.success
                             THEN /\ result' = [result EXCEPT ![c] = Ok(valueCheck.value)]
                                  /\ pc' = [pc EXCEPT ![c] = "done"]
                                  /\ batch' = IF opts[c].param = 0 \/ refreshes
                                              THEN batch
                                              ELSE handle(batch, opts[c].param)
                                  /\ UNCHANGED <<store, pending, waitOn, invoked, gpc, prev,
                                                 sawPending>>
                             ELSE /\ pc' = [pc EXCEPT ![c] = "check"]
                                  /\ UNCHANGED <<store, result, pending, waitOn, invoked,
                                                 gpc, prev, sawPending, batch>>
                        ELSE /\ freshOrPending(c, opts[c])
                             /\ UNCHANGED <<store, result>>
    /\ UNCHANGED <<now, opts, metadata, cached, gval, gfv, race, fresh, beat, informed,
                   producedAt, fallbackAt, wrote,
                   request, purge, probe>>

\* getCachedValue.ts: the validator has rejected the cached value and
\* cache.delete(key) is issued inside the try block, so that what it throws
\* is caught
checkCachedValueError(c, delThrows) ==
    /\ pc[c] = "check"
    /\ IF delThrows
       THEN /\ pc' = [pc EXCEPT ![c] = "catch"]
            /\ UNCHANGED <<store, result>>
       ELSE deleteKey(c, FALSE)
    /\ UNCHANGED <<now, pending, opts, metadata, cached, waitOn, invoked, freshVars,
                   refresh, histVars,
                   batchVars, sideVars>>

\* getCachedValue.ts: the catch block issues cache.delete(key) once more
getCachedValueError(c, delThrows) ==
    /\ pc[c] = "catch"
    /\ deleteKey(c, delThrows)
    /\ UNCHANGED <<now, pending, opts, metadata, cached, waitOn, invoked, freshVars,
                   refresh, histVars,
                   batchVars, sideVars>>

\* getCachedValue.ts: cache.delete has returned, the cache counts as empty
cacheDeleted(c) ==
    /\ pc[c] = "delete"
    /\ freshOrPending(c, opts[c])
    /\ UNCHANGED <<now, store, opts, metadata, cached, result, gval, gfv, race, fresh,
                   refresh, served, beat, informed, producedAt, fallbackAt, wrote,
                   request, sideVars>>

\* ------------------------------------------------------------- getFreshValue
\* the promise of getFreshValue settles; the race takes the first outcome it sees
settle(c, outcome) ==
    /\ gfv' = [gfv EXCEPT ![c] = outcome]
    /\ gpc' = [gpc EXCEPT ![c] = "done"]
    /\ race' = [race EXCEPT ![c] = IF @.st = "none" THEN outcome ELSE @]
    /\ beat' = [beat EXCEPT ![c] =
           outcome.st = "ok" /\ prev[c] # NoCall /\ gfv[prev[c]].st = "none"]

\* getFreshValue: the value is checked and, unless its metadata says to refresh
\* it now, written to the cache
writeFreshValue(c, value, setThrows) ==
    LET valueCheck == checkValue(opts[c], value)
        write == shouldRefresh(metadata[c], now) # "now"
    IN  IF ~valueCheck.success
        THEN /\ settle(c, CheckFailed(c, valueCheck.reason))
             /\ wrote' = [wrote EXCEPT ![c] = "no"]
             /\ UNCHANGED <<store, gval>>
        ELSE IF write
        THEN /\ store' = [store EXCEPT ![Slot(c)] =
                    IF setThrows THEN @ ELSE createCacheEntry(value, metadata[c])]
             /\ gval' = [gval EXCEPT ![c] = valueCheck.value]
             /\ gpc' = [gpc EXCEPT ![c] = "set"]
             /\ wrote' = [wrote EXCEPT ![c] = IF setThrows THEN "threw" ELSE "set"]
             /\ UNCHANGED <<gfv, race, beat>>
        ELSE /\ settle(c, Ok(valueCheck.value))
             /\ gval' = [gval EXCEPT ![c] = valueCheck.value]
             /\ wrote' = [wrote EXCEPT ![c] = "skipped"]
             /\ UNCHANGED store

\* what the production function of call c throws: the error of the promise
\* of the batch, or its own error c
productionError(c) ==
    IF opts[c].param = 0 THEN Thrown(c) ELSE request[c]

\* the production function returns its value: c, or for a producer function of
\* the batch the value its promise was resolved with
getFreshValueSuccess(c, setThrows) ==
    /\ gpc[c] = "production"
    /\ opts[c].param # 0 => request[c].st = "ok"
    /\ writeFreshValue(c, IF opts[c].param = 0 THEN c ELSE request[c].v, setThrows)
    /\ producedAt' = [producedAt EXCEPT ![c] = now]
    /\ UNCHANGED <<now, pending, callVars, fresh, prev, refresh, sawPending, served,
                   informed, fallbackAt,
                   batchVars, sideVars>>

\* the production function, while it runs, assigns context.metadata.ttl; the
\* pending entry holds the same metadata object
setMetadataTtl(c, ttl) ==
    /\ gpc[c] = "production"
    /\ metadata[c].ttl # ttl
    /\ metadata' = [metadata EXCEPT ![c].ttl = ttl]
    /\ UNCHANGED <<envVars, opts, pc, cached, waitOn, result, invoked, freshVars,
                   refresh, histVars,
                   batchVars, sideVars>>

\* mutant: a failed production removes the entry of its key
getFreshValueErrorPurges(c, getThrows) ==
    /\ gpc[c] = "production"
    /\ store' = [store EXCEPT ![Slot(c)] = EmptyEntry]
    /\ IF opts[c].forceFresh /\ fallbackToCacheOf(opts[c].fallbackToCache) > 0
       THEN /\ cached' = [cached EXCEPT ![c] =
                    IF getThrows THEN StoreError ELSE store[Slot(c)]]
            /\ gpc' = [gpc EXCEPT ![c] = "fallback"]
            /\ UNCHANGED <<gfv, race, beat>>
       ELSE /\ settle(c, Thrown(c))
            /\ UNCHANGED cached
    /\ UNCHANGED <<now, pending, opts, pc, metadata, waitOn, result, invoked,
                   gval, fresh, prev, refresh, sawPending, served, informed, producedAt,
                   fallbackAt, wrote,
                   batchVars, sideVars>>

\* the production function throws: a forced call with a fallback allowance
\* reads the cache, any other call rejects with what was thrown
getFreshValueError(c, getThrows) ==
    /\ gpc[c] = "production"
    /\ opts[c].param # 0 => request[c].st = "err"
    /\ IF opts[c].forceFresh /\ fallbackToCacheOf(opts[c].fallbackToCache) > 0
       THEN /\ cached' = [cached EXCEPT ![c] =
                    IF getThrows THEN StoreError ELSE store[Slot(c)]]
            /\ gpc' = [gpc EXCEPT ![c] = "fallback"]
            /\ UNCHANGED <<gfv, race, beat>>
       ELSE /\ settle(c, productionError(c))
            /\ UNCHANGED cached
    /\ UNCHANGED <<now, store, pending, opts, pc, metadata, waitOn, result, invoked,
                   gval, fresh, prev, refresh, sawPending, served, informed, producedAt,
                   fallbackAt, wrote,
                   batchVars, sideVars>>

\* getFreshValue: the continuation of the fallback's `await getCacheEntry`
getFreshValueCacheFallback(c) ==
    /\ gpc[c] = "fallback"
    /\ LET entry == cached[c]
           fallbackToCache == fallbackToCacheOf(opts[c].fallbackToCache)
       IN  CASE entry.kind = "error" ->
                  /\ settle(c, StoreThrew(c))
                  /\ UNCHANGED gval
             [] entry.kind = "malformed" ->
                  /\ settle(c, Structural(c))
                  /\ UNCHANGED gval
             [] entry.kind = "empty" ->
                  /\ settle(c, productionError(c))
                  /\ UNCHANGED gval
             [] OTHER ->
                  IF Plus(entry.metadata.createdTime, fallbackToCache) < now
                  THEN /\ settle(c, productionError(c))
                       /\ UNCHANGED gval
                  ELSE /\ gval' = [gval EXCEPT ![c] = entry.value]
                       /\ gpc' = [gpc EXCEPT ![c] = "check"]
                       /\ UNCHANGED <<gfv, race, beat>>
    /\ fallbackAt' = [fallbackAt EXCEPT ![c] = now]
    /\ UNCHANGED <<now, store, pending, callVars, fresh, prev, refresh, sawPending,
                   served, informed, producedAt, wrote,
                   batchVars, sideVars>>

\* getFreshValue: the fallback value has been checked
checkFreshValue(c, setThrows) ==
    /\ gpc[c] = "check"
    /\ writeFreshValue(c, gval[c], setThrows)
    /\ UNCHANGED <<now, pending, callVars, fresh, prev, refresh, sawPending, served,
                   informed, producedAt, fallbackAt,
                   batchVars, sideVars>>

\* mutant: what cache.set throws rejects the call
writeFreshValueFails(c) ==
    /\ gpc[c] = "set"
    /\ settle(c, IF wrote[c] = "threw" THEN StoreThrew(c) ELSE Ok(gval[c]))
    /\ UNCHANGED <<now, store, pending, callVars, gval, fresh, prev, refresh, sawPending,
                   served, informed, producedAt, fallbackAt, wrote,
                   batchVars, sideVars>>

\* getFreshValue: cache.set has returned (or thrown, which is only reported)
writeFreshValueSuccess(c) ==
    /\ gpc[c] = "set"
    /\ settle(c, Ok(gval[c]))
    /\ UNCHANGED <<now, store, pending, callVars, gval, fresh, prev, refresh, sawPending,
                   served, informed, producedAt, fallbackAt, wrote,
                   batchVars, sideVars>>

\* mutant: a fulfilled freshValue does not resolve the earlier pending entry
freshValueSettledAlone(c) ==
    /\ race[c].st # "none"
    /\ fresh[c].st = "none"
    /\ pending' = [pending EXCEPT ![Slot(c)] = NoCall]
    /\ fresh' = [fresh EXCEPT ![c] = race[c]]
    /\ race' = race
    /\ informed' = [informed EXCEPT ![c] =
           race[c].st = "ok" /\ prev[c] # NoCall /\ race[prev[c]].st = "none"]
    /\ UNCHANGED <<now, store, callVars, gpc, gval, gfv, prev, refresh, sawPending,
                   served, beat, producedAt, fallbackAt, wrote,
                   batchVars, sideVars>>

\* mutant: a rejected freshValue settles the earlier pending entry as well
freshValueSettledAnyOutcome(c) ==
    /\ race[c].st # "none"
    /\ fresh[c].st = "none"
    /\ pending' = [pending EXCEPT ![Slot(c)] = NoCall]
    /\ fresh' = [fresh EXCEPT ![c] = race[c]]
    /\ race' = IF prev[c] # NoCall
               THEN [race EXCEPT ![prev[c]] = IF @.st = "none" THEN race[c] ELSE @]
               ELSE race
    /\ informed' = [informed EXCEPT ![c] =
           race[c].st = "ok" /\ prev[c] # NoCall /\ race[prev[c]].st = "none"]
    /\ UNCHANGED <<now, store, callVars, gpc, gval, gfv, prev, refresh, sawPending,
                   served, beat, producedAt, fallbackAt, wrote,
                   batchVars, sideVars>>

\* mutant: the finally leaves the pending value of a rejected race registered
freshValueSettledKeepsRejected(c) ==
    /\ race[c].st # "none"
    /\ fresh[c].st = "none"
    /\ pending' = IF race[c].st = "err" THEN pending
                  ELSE [pending EXCEPT ![Slot(c)] = NoCall]
    /\ fresh' = [fresh EXCEPT ![c] = race[c]]
    /\ race' = IF race[c].st = "ok" /\ prev[c] # NoCall
               THEN [race EXCEPT ![prev[c]] = IF @.st = "none" THEN race[c] ELSE @]
               ELSE race
    /\ informed' = [informed EXCEPT ![c] =
           race[c].st = "ok" /\ prev[c] # NoCall /\ race[prev[c]].st = "none"]
    /\ UNCHANGED <<now, store, callVars, gpc, gval, gfv, prev, refresh, sawPending,
                   served, beat, producedAt, fallbackAt, wrote,
                   batchVars, sideVars>>

\* cachified.ts: the race has settled. Its finally deletes the key from the
\* pending values, freshValue settles, and a fulfilled freshValue resolves the
\* earlier pending entry it was hooked into.
freshValueSettled(c) ==
    /\ race[c].st # "none"
    /\ fresh[c].st = "none"
    /\ pending' = [pending EXCEPT ![Slot(c)] = NoCall]
    /\ fresh' = [fresh EXCEPT ![c] = race[c]]
    /\ race' = IF race[c].st = "ok" /\ prev[c] # NoCall
               THEN [race EXCEPT ![prev[c]] = IF @.st = "none" THEN race[c] ELSE @]
               ELSE race
    /\ informed' = [informed EXCEPT ![c] =
           race[c].st = "ok" /\ prev[c] # NoCall /\ race[prev[c]].st = "none"]
    /\ UNCHANGED <<now, store, callVars, gpc, gval, gfv, prev, refresh, sawPending,
                   served, beat, producedAt, fallbackAt, wrote,
                   batchVars, sideVars>>

\* ------------------------------------------------------------- the batch
\* mutant: add does not check for the submission
addUnchecked(c) ==
    /\ pc[c] = "idle"
    /\ \A d \in Calls : d < c => pc[d] # "idle"
    /\ pc' = [pc EXCEPT ![c] = "added"]
    /\ batch' = [batch EXCEPT !.count = @ + 1]
    /\ UNCHANGED <<envVars, opts, metadata, cached, waitOn, result, invoked, freshVars,
                   refresh, histVars, request, sideVars>>

\* createBatch.ts add(param) for the call c the producer function is meant for:
\* it throws after submission, and the call is not made
add(c) ==
    /\ pc[c] = "idle"
    /\ \A d \in Calls : d < c => pc[d] # "idle"
    /\ IF batch.submitted
       THEN /\ pc' = [pc EXCEPT ![c] = "add threw"]
            /\ UNCHANGED batch
       ELSE /\ pc' = [pc EXCEPT ![c] = "added"]
            /\ batch' = [batch EXCEPT !.count = @ + 1]
    /\ UNCHANGED <<envVars, opts, metadata, cached, waitOn, result, invoked, freshVars,
                   refresh, histVars, request, sideVars>>

\* createBatch.ts submit(), called by the application: it returns the promise
\* of the submission while producers are outstanding, and else its own, which
\* rejects after a submission, is resolved when there is no request, and is
\* resolved after the bulk producer has returned or thrown
submitBatch ==
    /\ batch.submitCalls = 0
    /\ batch' = [submit(batch) EXCEPT
           !.submitCalls = @ + 1,
           !.promise = IF batch.count # 0 THEN "pending"
                       ELSE IF batch.submitted THEN "rejected"
                       ELSE IF Len(batch.requests) = 0 THEN "resolved"
                       ELSE "pending"]
    /\ UNCHANGED <<envVars, callVars, freshVars, refresh, histVars, request, sideVars>>

\* the promises the first n requests hold are resolved with the results in
\* the order of the list
resolved(requests, results, n) ==
    [c \in Calls |->
        IF \E i \in 1 .. n : requests[i][2] = c /\ request[c].st = "none"
        THEN Ok(results[CHOOSE i \in 1 .. n : requests[i][2] = c])
        ELSE request[c]]

\* mutant: the results are handed out in reverse order
getFreshValuesSuccessReversed(results) ==
    /\ batch.running
    /\ batch' = [batch EXCEPT !.running = FALSE, !.outcome = "returned",
                              !.promise = IF @ = "pending" THEN "resolved" ELSE @]
    /\ request' = resolved(batch.requests,
                           [i \in 1 .. Len(results) |-> results[Len(results) + 1 - i]],
                           Len(results))
    /\ UNCHANGED <<envVars, callVars, freshVars, refresh, histVars, sideVars>>

\* createBatch.ts submit: the bulk producer has returned the list results,
\* each result resolves the request at its index
getFreshValuesSuccess(results) ==
    /\ batch.running
    /\ batch' = [batch EXCEPT !.running = FALSE, !.outcome = "returned",
                              !.promise = IF @ = "pending" THEN "resolved" ELSE @]
    /\ request' = resolved(batch.requests, results, Len(results))
    /\ UNCHANGED <<envVars, callVars, freshVars, refresh, histVars, sideVars>>

\* mutant: only the first request is rejected when the bulk producer throws
getFreshValuesErrorFirstOnly ==
    /\ batch.running
    /\ batch' = [batch EXCEPT !.running = FALSE, !.outcome = "threw",
                              !.promise = IF @ = "pending" THEN "resolved" ELSE @]
    /\ request' = [request EXCEPT ![batch.requests[1][2]] = Thrown(BatchError)]
    /\ UNCHANGED <<envVars, callVars, freshVars, refresh, histVars, sideVars>>

\* createBatch.ts submit: the bulk producer has thrown, every request is rejected
getFreshValuesError ==
    /\ batch.running
    /\ batch' = [batch EXCEPT !.running = FALSE, !.outcome = "threw",
                              !.promise = IF @ = "pending" THEN "resolved" ELSE @]
    /\ request' = [c \in Calls |->
           IF \E i \in 1 .. Len(batch.requests) :
                  batch.requests[i][2] = c /\ request[c].st = "none"
           THEN Thrown(BatchError)
           ELSE request[c]]
    /\ UNCHANGED <<envVars, callVars, freshVars, refresh, histVars, sideVars>>

\* ------------------------------------------------------------- softPurge
\* softPurge.ts: the call, with swr the stale window to overwrite with or
\* Undefined; getCacheEntry issues cache.get
softPurge(cache, key, swr) ==
    /\ purge.pc = "idle"
    /\ purge' = [purge EXCEPT !.pc = "get", !.cache = cache, !.key = key, !.swr = swr,
                              !.entry = store[<<cache, key>>]]
    /\ UNCHANGED <<envVars, callVars, freshVars, refresh, histVars, batchVars,
                   rewrite, probe>>

\* the stale window softPurge writes for an entry read at time t
purgedSwr(m, swrOverwrite, t) ==
    LET ttl == IF m.ttl = Null \/ m.ttl = 0
               THEN Infinity ELSE m.ttl
        swr == OrZero(staleWhileRevalidate(m))
        lt == t - m.createdTime
    IN  IF swrOverwrite = Undefined THEN Plus(ttl, swr) ELSE Plus(swrOverwrite, lt)

\* mutant: what is not a cache entry is deleted
softPurgeEntryDeletes ==
    /\ purge.pc = "get"
    /\ purge.entry.kind = "malformed"
    /\ store' = [store EXCEPT ![<<purge.cache, purge.key>>] = EmptyEntry]
    /\ purge' = [purge EXCEPT !.pc = "done", !.outcome = "structural"]
    /\ UNCHANGED <<now, pending, callVars, freshVars, refresh, histVars, batchVars,
                   rewrite, probe>>

\* softPurge.ts: cache.get has returned; assertCacheEntry throws for what is
\* not a cache entry, nothing is done for an empty key or an entry that is to
\* be refreshed, and every other entry is written back with ttl 0
softPurgeEntry ==
    /\ purge.pc = "get"
    /\ LET entry == purge.entry
       IN  IF entry.kind = "malformed"
           THEN /\ purge' = [purge EXCEPT !.pc = "done", !.outcome = "structural"]
                /\ UNCHANGED store
           ELSE IF entry.kind = "empty" \/ shouldRefresh(entry.metadata, now) # "fresh"
           THEN /\ purge' = [purge EXCEPT !.pc = "done", !.outcome = "resolved",
                                          !.seen = IF entry.kind = "empty" THEN "empty"
                                                   ELSE isExpired(entry.metadata, now)]
                /\ UNCHANGED store
           ELSE LET written == createCacheEntry(entry.value,
                                   [ttl |-> 0,
                                    swr |-> purgedSwr(entry.metadata, purge.swr, now),
                                    createdTime |-> entry.metadata.createdTime])
                IN  /\ store' = [store EXCEPT ![<<purge.cache, purge.key>>] = written]
                    /\ purge' = [purge EXCEPT !.pc = "set", !.written = written,
                                              !.at = now,
                                              !.seen = isExpired(entry.metadata, now)]
    /\ UNCHANGED <<now, pending, callVars, freshVars, refresh, histVars, batchVars,
                   rewrite, probe>>

\* softPurge.ts: cache.set has returned
softPurgeDone ==
    /\ purge.pc = "set"
    /\ purge' = [purge EXCEPT !.pc = "done", !.outcome = "resolved"]
    /\ UNCHANGED <<envVars, callVars, freshVars, refresh, histVars, batchVars,
                   rewrite, probe>>

\* getCachedValue.ts, the task that writes a migrated value back: sleep(0) is
\* over and cache.get is issued
rewriteMigrated(c) ==
    /\ rewrite[c].pc = "sleep"
    /\ rewrite' = [rewrite EXCEPT ![c].pc = "get", ![c].cached = store[Slot(c)]]
    /\ UNCHANGED <<envVars, callVars, freshVars, refresh, histVars, batchVars,
                   purge, probe>>

\* getCachedValue.ts, the task that writes a migrated value back: cache.get
\* has returned; the entry it returned is written with the migrated value
\* when its createdTime is that of the metadata of the call and the key has
\* no pending value (reading the metadata of what is not a cache entry
\* throws, and the error is dropped)
rewriteMigratedEntry(c) ==
    /\ rewrite[c].pc = "get"
    /\ rewrite' = [rewrite EXCEPT ![c].pc = "done"]
    /\ LET entry == rewrite[c].cached
       IN  store' = IF /\ entry.kind = "entry"
                       /\ entry.metadata.createdTime = metadata[c].createdTime
                       /\ pending[Slot(c)] = NoCall
                    THEN [store EXCEPT ![Slot(c)] =
                              [entry EXCEPT !.value = rewrite[c].value]]
                    ELSE store
    /\ UNCHANGED <<now, pending, callVars, freshVars, refresh, histVars, batchVars,
                   purge, probe>>

\* isExpired.ts: isExpired(metadata) is called while Date.now() is probe.now
callIsExpired ==
    /\ probe.expired = "none"
    /\ probe' = [probe EXCEPT !.expired = isExpired(probe.metadata, probe.now)]
    /\ UNCHANGED <<envVars, callVars, freshVars, refresh, histVars, batchVars,
                   purge, rewrite>>

\* the outcome of a call: of the freshValue it awaits, or what it returned
Result(c) ==
    IF pc[c] = "await" THEN fresh[waitOn[c]] ELSE result[c]

\* ------------------------------------------------------------- specifications
\* Parallel calls for one key of one store, with and without a ttl, whose
\* productions return or throw.
RaceOptions ==
    {[NoOpts EXCEPT !.ttl = t] : t \in {Undefined, 1}}

Next ==
    \/ Tick(MaxTime)
    \/ \E c \in Calls, o \in RaceOptions : cachified(c, o, FALSE)
    \/ \E c \in Calls : getCachedValue(c, FALSE)
    \/ \E c \in Calls : getFreshValueSuccess(c, FALSE)
    \/ \E c \in Calls : getFreshValueError(c, FALSE)
    \/ \E c \in Calls : writeFreshValueSuccess(c)
    \/ \E c \in Calls : freshValueSettled(c)

Spec == Init /\ [][Next]_vars

\* Stale-while-revalidate: calls with ttl 1, a stale window of 2 and a refresh
\* timeout of 1 for a key that is empty or holds an entry written at time 0,
\* and the background refreshes their stale reads schedule.
StaleOptions ==
    {[NoOpts EXCEPT !.ttl = 1, !.swr = 2, !.staleRefreshTimeout = 1]}

SeedEntry == createCacheEntry(0, createCacheMetaData(1, 2, 0))

InitStale ==
    \E e \in {EmptyEntry, SeedEntry} :
        InitWith([EmptyStore EXCEPT ![<<"s1", "k1">>] = e])

NextStale ==
    \/ Tick(MaxTime)
    \/ \E c \in Calls, o \in StaleOptions : cachified(c, o, FALSE)
    \/ \E c \in Calls, parent \in Calls : refreshValue(c, parent)
    \/ \E c \in Calls : getCachedValue(c, FALSE)
    \/ \E c \in Calls : getFreshValueSuccess(c, FALSE)
    \/ \E c \in Calls : getFreshValueError(c, FALSE)
    \/ \E c \in Calls : writeFreshValueSuccess(c)
    \/ \E c \in Calls : freshValueSettled(c)

SpecStale == InitStale /\ [][NextStale]_vars

\* Fallback to the cache: plain and forced calls without a ttl, with the
\* fallback allowance left out, switched off or set to 1, whose productions
\* return or throw, on a store whose get may throw and whose key is empty or
\* holds something that is not a cache entry.
FallbackOptions ==
    {NoOpts}
    \cup {[NoOpts EXCEPT !.forceFresh = TRUE, !.fallbackToCache = fb] :
              fb \in {FbUndefined, FbFalse, FbNumber(1)}}

InitFallback ==
    \E e \in {EmptyEntry, Malformed} :
        InitWith([EmptyStore EXCEPT ![<<"s1", "k1">>] = e])

NextFallback ==
    \/ Tick(MaxFallbackTime)
    \/ \E c \in Calls, o \in FallbackOptions : cachified(c, o, FALSE)
    \/ \E c \in Calls : getCachedValue(c, FALSE)
    \/ \E c \in Calls : cacheDeleted(c)
    \/ \E c \in Calls : getFreshValueSuccess(c, FALSE)
    \/ \E c \in Calls, getThrows \in BOOLEAN : getFreshValueError(c, getThrows)
    \/ \E c \in Calls : getFreshValueCacheFallback(c)
    \/ \E c \in Calls : checkFreshValue(c, FALSE)
    \/ \E c \in Calls : writeFreshValueSuccess(c)
    \/ \E c \in Calls : freshValueSettled(c)

SpecFallback == InitFallback /\ [][NextFallback]_vars

\* Validation: two calls with ttl 1 whose validator accepts every value, or
\* rejects the stored value 0 or the value of the first production by
\* returning false, returning a reason or throwing, for a key that is empty,
\* holds something that is not a cache entry, or holds an entry without a ttl.
ValidateOptions ==
    {[NoOpts EXCEPT !.ttl = 1]}
    \cup {[NoOpts EXCEPT !.ttl = 1, !.rejects = {0}]}
    \cup {[NoOpts EXCEPT !.ttl = 1, !.rejects = {1}, !.rejectAs = a] :
              a \in {"false", "invalid", "thrown"}}

ValidEntry == createCacheEntry(0, createCacheMetaData(Undefined, 0, 0))

InitValidate ==
    \E e \in {EmptyEntry, Malformed, ValidEntry} :
        InitWith([EmptyStore EXCEPT ![<<"s1", "k1">>] = e])

NextValidate ==
    \/ Tick(MaxFallbackTime)
    \/ \E c \in 1 .. MaxValidateCalls, o \in ValidateOptions : cachified(c, o, FALSE)
    \/ \E c \in Calls : getCachedValue(c, FALSE)
    \/ \E c \in Calls : checkCachedValueError(c, FALSE)
    \/ \E c \in Calls : cacheDeleted(c)
    \/ \E c \in Calls : getFreshValueSuccess(c, FALSE)
    \/ \E c \in Calls : writeFreshValueSuccess(c)
    \/ \E c \in Calls : freshValueSettled(c)

SpecValidate == InitValidate /\ [][NextValidate]_vars

\* Store faults: plain calls without a ttl, with and without a validator that
\* rejects the stored value 0, whose productions return, on a store whose
\* get, set and delete may throw and whose key is empty, holds something that
\* is not a cache entry, or holds an entry.
FaultOptions ==
    {NoOpts, [NoOpts EXCEPT !.rejects = {0}]}

InitFaults ==
    \E e \in {EmptyEntry, Malformed, ValidEntry} :
        InitWith([EmptyStore EXCEPT ![<<"s1", "k1">>] = e])

NextFaults ==
    \/ Tick(MaxFaultsTime)
    \/ \E c \in Calls, o \in FaultOptions, getThrows \in BOOLEAN : cachified(c, o, getThrows)
    \/ \E c \in Calls, delThrows \in BOOLEAN : getCachedValue(c, delThrows)
    \/ \E c \in Calls, delThrows \in BOOLEAN : checkCachedValueError(c, delThrows)
    \/ \E c \in Calls, delThrows \in BOOLEAN : getCachedValueError(c, delThrows)
    \/ \E c \in Calls : cacheDeleted(c)
    \/ \E c \in Calls, setThrows \in BOOLEAN : getFreshValueSuccess(c, setThrows)
    \/ \E c \in Calls : writeFreshValueSuccess(c)
    \/ \E c \in Calls : freshValueSettled(c)

SpecFaults == InitFaults /\ [][NextFaults]_vars

\* Time to live: two calls with ttl 1 or -1 and a stale window of 0 or 2,
\* whose production functions may set the ttl of their metadata to -1 before
\* they return, and the background refreshes their stale reads schedule.
TtlOptions ==
    {[NoOpts EXCEPT !.ttl = t, !.swr = w] : t \in {1, -1}, w \in {Undefined, 2}}

NextTtl ==
    \/ Tick(MaxTime)
    \/ \E c \in 1 .. MaxTtlCalls, o \in TtlOptions : cachified(c, o, FALSE)
    \/ \E c \in Calls, parent \in Calls : refreshValue(c, parent)
    \/ \E c \in Calls : getCachedValue(c, FALSE)
    \/ \E c \in Calls : setMetadataTtl(c, -1)
    \/ \E c \in Calls : getFreshValueSuccess(c, FALSE)
    \/ \E c \in Calls : writeFreshValueSuccess(c)
    \/ \E c \in Calls : freshValueSettled(c)

SpecTtl == Init /\ [][NextTtl]_vars

\* The batch: calls for three keys whose production functions are the
\* producer functions of one batch with auto-submit, the parameter of a call
\* being its number and the bulk producer returning each parameter as its
\* value or throwing, on a store whose second key is empty or holds an entry
\* with ttl 1 and a stale window of 2, and the refreshes of stale reads.
BatchOptions ==
    {[NoOpts EXCEPT !.key = k, !.ttl = 1, !.swr = 2] : k \in Keys}

InitBatch ==
    \E e \in {EmptyEntry, SeedEntry} :
        InitWith([EmptyStore EXCEPT ![<<"s1", "k2">>] = e])

NextBatch ==
    \/ Tick(MaxFallbackTime)
    \/ \E c \in Calls : add(c)
    \/ \E c \in Calls, o \in BatchOptions : cachified(c, [o EXCEPT !.param = c], FALSE)
    \/ \E c \in Calls, parent \in Calls : refreshValue(c, parent)
    \/ \E c \in Calls : getCachedValue(c, FALSE)
    \/ getFreshValuesSuccess(batch.params)
    \/ getFreshValuesError
    \/ \E c \in Calls : getFreshValueSuccess(c, FALSE)
    \/ \E c \in Calls : getFreshValueError(c, FALSE)
    \/ \E c \in Calls : writeFreshValueSuccess(c)
    \/ \E c \in Calls : freshValueSettled(c)

SpecBatch == InitBatch /\ [][NextBatch]_vars

\* Manual submission: the same calls with a batch created with autoSubmit
\* false, whose submit the application calls once, at any time.
InitManual ==
    \E e \in {EmptyEntry, SeedEntry} :
        InitBatchWith([EmptyStore EXCEPT ![<<"s1", "k2">>] = e], FALSE)

NextManual ==
    \/ Tick(MaxFallbackTime)
    \/ \E c \in Calls : add(c)
    \/ submitBatch
    \/ \E c \in Calls, o \in BatchOptions : cachified(c, [o EXCEPT !.param = c], FALSE)
    \/ \E c \in Calls, parent \in Calls : refreshValue(c, parent)
    \/ \E c \in Calls : getCachedValue(c, FALSE)
    \/ getFreshValuesSuccess(batch.params)
    \/ getFreshValuesError
    \/ \E c \in Calls : getFreshValueSuccess(c, FALSE)
    \/ \E c \in Calls : getFreshValueError(c, FALSE)
    \/ \E c \in Calls : writeFreshValueSuccess(c)
    \/ \E c \in Calls : freshValueSettled(c)

SpecManual == InitManual /\ [][NextManual]_vars

\* softPurge: one softPurge call, with or without a stale window to overwrite
\* with, and plain calls with a ttl of 1 and no, a finite or an infinite stale
\* window, for a key that is empty, holds something that is not a cache
\* entry, or holds an entry written at time 0 with a ttl that is null
\* (Infinity), 0 or 1 and a stale window that is 0, 1 or null (Infinity).
PurgeOptions ==
    {[NoOpts EXCEPT !.ttl = 1, !.swr = w] : w \in {Undefined, 1, Infinity}}

PurgeEntries ==
    {createCacheEntry(0, createCacheMetaData(t, w, 0)) :
         t \in {Infinity, 0, 1}, w \in {0, 1, Infinity}}

InitPurge ==
    \E e \in {EmptyEntry, Malformed} \cup PurgeEntries :
        InitWith([EmptyStore EXCEPT ![<<"s1", "k1">>] = e])

NextPurge ==
    \/ Tick(MaxPurgeTime)
    \/ \E w \in {Undefined, 1} : softPurge("s1", "k1", w)
    \/ softPurgeEntry
    \/ softPurgeDone
    \/ \E c \in 1 .. MaxPurgeCalls, o \in PurgeOptions : cachified(c, o, FALSE)
    \/ \E c \in Calls : getCachedValue(c, FALSE)
    \/ \E c \in Calls : cacheDeleted(c)
    \/ \E c \in Calls : getFreshValueSuccess(c, FALSE)
    \/ \E c \in Calls : writeFreshValueSuccess(c)
    \/ \E c \in Calls : freshValueSettled(c)

SpecPurge == InitPurge /\ [][NextPurge]_vars

\* isExpired: one evaluation, for metadata with a ttl that is null (Infinity),
\* negative, 0, 1 or 2, a stale window that is null (Infinity), negative, 0, 1
\* or 2 and a createdTime of 0 or 1, at every instant up to MaxProbeTime and
\* at Infinity.
ProbeMetadata ==
    {[ttl |-> t, swr |-> w, createdTime |-> ct] :
         t \in {Null, -1, 0, 1, 2}, w \in {Null, -1, 0, 1, 2}, ct \in {0, 1}}

InitClassify ==
    \E m \in ProbeMetadata, t \in (0 .. MaxProbeTime) \cup {Infinity} :
        InitProbeWith(EmptyStore, TRUE, [NoProbe EXCEPT !.metadata = m, !.now = t])

NextClassify ==
    \/ callIsExpired

SpecClassify == InitClassify /\ [][NextClassify]_vars

\* Migration: plain calls whose validator migrates the value 0 and forced
\* calls without a validator, all without a ttl, for a key that holds the
\* value 0 written at time 0, and the tasks that write migrated values back.
MigrateOptions ==
    {[NoOpts EXCEPT !.migrates = {0}], [NoOpts EXCEPT !.forceFresh = TRUE]}

InitMigrate ==
    InitWith([EmptyStore EXCEPT ![<<"s1", "k1">>] = ValidEntry])

NextMigrate ==
    \/ Tick(MaxMigrateTime)
    \/ \E c \in Calls, o \in MigrateOptions : cachified(c, o, FALSE)
    \/ \E c \in Calls : getCachedValue(c, FALSE)
    \/ \E c \in Calls : rewriteMigrated(c)
    \/ \E c \in Calls : rewriteMigratedEntry(c)
    \/ \E c \in Calls : getFreshValueSuccess(c, FALSE)
    \/ \E c \in Calls : writeFreshValueSuccess(c)
    \/ \E c \in Calls : freshValueSettled(c)

SpecMigrate == InitMigrate /\ [][NextMigrate]_vars

\* The infinite stale window: calls with a ttl of 1 and staleWhileRevalidate
\* Infinity, with or without a validator that rejects the value 0, for a key
\* that is empty or holds the value 0 written at time 0 with a ttl of 1 and a
\* stale window of 0 or Infinity, the refreshes they schedule, and a clock
\* that runs up to MaxInfiniteTime and jumps to Infinity.
InfiniteOptions ==
    {[NoOpts EXCEPT !.ttl = 1, !.swr = Infinity, !.rejects = r] : r \in {{}, {0}}}

InfiniteEntries ==
    {createCacheEntry(0, createCacheMetaData(1, w, 0)) : w \in {0, Infinity}}

InitInfinite ==
    \E e \in {EmptyEntry} \cup InfiniteEntries :
        InitWith([EmptyStore EXCEPT ![<<"s1", "k1">>] = e])

NextInfinite ==
    \/ Tick(MaxInfiniteTime)
    \/ TickToInfinity
    \/ \E c \in 1 .. MaxInfiniteCalls, o \in InfiniteOptions : cachified(c, o, FALSE)
    \/ \E c \in Calls, parent \in Calls : refreshValue(c, parent)
    \/ \E c \in Calls : getCachedValue(c, FALSE)
    \/ \E c \in Calls : checkCachedValueError(c, FALSE)
    \/ \E c \in Calls : cacheDeleted(c)
    \/ \E c \in Calls : getFreshValueSuccess(c, FALSE)
    \/ \E c \in Calls : writeFreshValueSuccess(c)
    \/ \E c \in Calls : freshValueSettled(c)

SpecInfinite == InitInfinite /\ [][NextInfinite]_vars

\* Keys and stores: plain and forced calls without a ttl for two keys on two
\* stores, whose productions return or throw; the first store holds an entry
\* for the first key and something that is not a cache entry for the second,
\* the second store holds an entry for the second key.
KeysOptions ==
    {[NoOpts EXCEPT !.cache = s, !.key = k, !.forceFresh = f] :
         s \in Stores, k \in {"k1", "k2"}, f \in BOOLEAN}

InitKeys ==
    InitWith([EmptyStore EXCEPT ![<<"s1", "k1">>] = ValidEntry,
                                ![<<"s1", "k2">>] = Malformed,
                                ![<<"s2", "k2">>] = createCacheEntry(5, NoMeta)])

NextKeys ==
    \/ \E c \in Calls, o \in KeysOptions : cachified(c, o, FALSE)
    \/ \E c \in Calls : getCachedValue(c, FALSE)
    \/ \E c \in Calls : cacheDeleted(c)
    \/ \E c \in Calls : getFreshValueSuccess(c, FALSE)
    \/ \E c \in Calls : getFreshValueError(c, FALSE)
    \/ \E c \in Calls : writeFreshValueSuccess(c)
    \/ \E c \in Calls : freshValueSettled(c)

SpecKeys == InitKeys /\ [][NextKeys]_vars

\* Pending values: calls with a ttl of 1 and a stale window of 1 on an empty
\* key, whose production functions may extend the ttl of their metadata to 3
\* while they run.
NextPending ==
    \/ Tick(MaxTime)
    \/ \E c \in Calls : cachified(c, [NoOpts EXCEPT !.ttl = 1, !.swr = 1], FALSE)
    \/ \E c \in Calls : getCachedValue(c, FALSE)
    \/ \E c \in Calls : setMetadataTtl(c, 3)
    \/ \E c \in Calls : getFreshValueSuccess(c, FALSE)
    \/ \E c \in Calls : writeFreshValueSuccess(c)
    \/ \E c \in Calls : freshValueSettled(c)

SpecPending == Init /\ [][NextPending]_vars

\* Stale reads under validation: two calls with ttl 1, a stale window of 2 and
\* a refresh timeout of 1, with or without a validator that rejects the
\* stored value 0, for a key that holds an entry written at time 0, and the
\* background refreshes their stale reads schedule.
StaleRejectOptions ==
    {[NoOpts EXCEPT !.ttl = 1, !.swr = 2, !.staleRefreshTimeout = 1, !.rejects = r] :
        r \in {{}, {0}}}

InitStaleReject ==
    InitWith([EmptyStore EXCEPT ![<<"s1", "k1">>] = SeedEntry])

NextStaleReject ==
    \/ Tick(MaxStaleRejectTime)
    \/ \E c \in 1 .. MaxStaleRejectCalls, o \in StaleRejectOptions : cachified(c, o, FALSE)
    \/ \E c \in Calls, parent \in Calls : refreshValue(c, parent)
    \/ \E c \in Calls : getCachedValue(c, FALSE)
    \/ \E c \in Calls : checkCachedValueError(c, FALSE)
    \/ \E c \in Calls : cacheDeleted(c)
    \/ \E c \in Calls : getFreshValueSuccess(c, FALSE)
    \/ \E c \in Calls : writeFreshValueSuccess(c)
    \/ \E c \in Calls : freshValueSettled(c)

SpecStaleReject == InitStaleReject /\ [][NextStaleReject]_vars

\* Batches to their end: two calls of the application with producer functions
\* of one auto-submitted batch, whose bulk producer returns a result for every
\* parameter or for all but the last, or throws, and the background refreshes
\* of stale reads. Every step that is not the application's is taken when it
\* stays possible: promises that can settle do, timers fire, the store and
\* the producers return.
ResultLists ==
    {batch.params, SubSeq(batch.params, 1, Len(batch.params) - 1)}

NextBatchLive ==
    \/ Tick(MaxFallbackTime)
    \/ \E c \in 1 .. MaxLiveCalls : add(c)
    \/ \E c \in 1 .. MaxLiveCalls, o \in BatchOptions :
            cachified(c, [o EXCEPT !.param = c], FALSE)
    \/ \E c \in Calls, parent \in Calls : refreshValue(c, parent)
    \/ \E c \in Calls : getCachedValue(c, FALSE)
    \/ \E results \in ResultLists : getFreshValuesSuccess(results)
    \/ getFreshValuesError
    \/ \E c \in Calls : getFreshValueSuccess(c, FALSE)
    \/ \E c \in Calls : getFreshValueError(c, FALSE)
    \/ \E c \in Calls : writeFreshValueSuccess(c)
    \/ \E c \in Calls : freshValueSettled(c)

SpecBatchLive ==
    /\ InitBatch /\ [][NextBatchLive]_vars
    /\ WF_vars(Tick(MaxFallbackTime))
    /\ WF_vars(\E c \in Calls, parent \in Calls : refreshValue(c, parent))
    /\ WF_vars(\E c \in Calls : getCachedValue(c, FALSE))
    /\ WF_vars(\E results \in ResultLists : getFreshValuesSuccess(results))
    /\ WF_vars(\E c \in Calls : getFreshValueSuccess(c, FALSE))
    /\ WF_vars(\E c \in Calls : writeFreshValueSuccess(c))
    /\ WF_vars(\E c \in Calls : freshValueSettled(c))

\* Forced calls in a batch: the application maps its keys to calls, each with
\* the producer function of an add, forced or not, in one synchronous run;
\* the store, the producers and the promises go on when that run is over.
\* One key holds a fresh entry.
ForcedBatchOptions ==
    {[NoOpts EXCEPT !.key = k, !.forceFresh = f] : k \in Keys, f \in BOOLEAN}

\* the application has made its calls
Mapped ==
    \A c \in Calls : pc[c] \notin {"idle", "added"}

InitForcedBatch ==
    InitWith([EmptyStore EXCEPT ![<<"s1", "k2">>] = ValidEntry])

NextForcedBatch ==
    \/ \E c \in Calls : add(c)
    \/ \E c \in Calls, o \in ForcedBatchOptions :
            cachified(c, [o EXCEPT !.param = c], FALSE)
    \/ Mapped /\ \E c \in Calls : getCachedValue(c, FALSE)
    \/ Mapped /\ getFreshValuesSuccess(batch.params)
    \/ Mapped /\ \E c \in Calls : getFreshValueSuccess(c, FALSE)
    \/ Mapped /\ \E c \in Calls : writeFreshValueSuccess(c)
    \/ Mapped /\ \E c \in Calls : freshValueSettled(c)

SpecForcedBatch == InitForcedBatch /\ [][NextForcedBatch]_vars

\* Calls to their end: two calls of the application with ttl 1 and a stale
\* window of 1, plain or forced without fallback, for a key that is empty or
\* holds an entry written at time 0, with the background refreshes of their
\* stale reads; the productions return or throw. Every step that is not the
\* application's is taken when it stays possible: the store and the
\* production functions return, timers fire, promises that can settle do.
NextLive ==
    \/ Tick(MaxFallbackTime)
    \/ \E c \in 1 .. MaxLiveCalls, f \in BOOLEAN :
            cachified(c, [NoOpts EXCEPT !.ttl = 1, !.swr = 1, !.forceFresh = f,
                                        !.fallbackToCache = FbFalse], FALSE)
    \/ \E c \in Calls, parent \in Calls : refreshValue(c, parent)
    \/ \E c \in Calls : getCachedValue(c, FALSE)
    \/ \E c \in Calls : getFreshValueSuccess(c, FALSE)
    \/ \E c \in Calls : getFreshValueError(c, FALSE)
    \/ \E c \in Calls : writeFreshValueSuccess(c)
    \/ \E c \in Calls : freshValueSettled(c)

SpecLive ==
    /\ InitStale /\ [][NextLive]_vars
    /\ WF_vars(Tick(MaxFallbackTime))
    /\ WF_vars(\E c \in Calls, parent \in Calls : refreshValue(c, parent))
    /\ WF_vars(\E c \in Calls : getCachedValue(c, FALSE))
    /\ WF_vars(\E c \in Calls : getFreshValueSuccess(c, FALSE) \/ getFreshValueError(c, FALSE))
    /\ WF_vars(\E c \in Calls : writeFreshValueSuccess(c))
    /\ WF_vars(\E c \in Calls : freshValueSettled(c))

\* ------------------------------------------------------------- claims
Started == {c \in Calls : pc[c] # "idle"}
Settled(c) == Result(c).st # "none"
\* a call that was not forced and whose cache.get found no entry
PlainOnEmpty(c) == ~opts[c].forceFresh /\ cached[c].kind = "empty"
Producers == {c \in Calls : invoked[c] > 0}

\* C1 as stated: N plain calls for a key the store has no entry for invoke the
\* production function exactly once and all resolve to the outcome of that
\* one invocation, whatever the interleaving.
C1_OnceForParallelCalls ==
    (/\ Started # {}
     /\ \A c \in Started : PlainOnEmpty(c) /\ Settled(c))
    => \E p \in Started :
           /\ Producers = {p}
           /\ \A c \in Started : Result(c) = gfv[p]

\* C1 amended: when every one of the N calls but one, p, reaches the pending
\* values while p's production is registered there with metadata that is still
\* fresh, only p invokes its production function and all N calls resolve to the
\* outcome of that invocation.
C1_OnceWhilePendingIsFresh ==
    \A p \in Started :
        (/\ \A c \in Started : PlainOnEmpty(c)
         /\ \A c \in Started \ {p} : sawPending[c] = p)
        => /\ Producers \subseteq {p}
           /\ \A c \in Started : Settled(c) => (invoked[p] > 0 /\ Result(c) = gfv[p])

\* three parallel calls have resolved to the value of the first one's production
C1_Witness ==
    /\ Started = Calls
    /\ \A c \in Calls : PlainOnEmpty(c) /\ Result(c) = Ok(1)
    /\ \A c \in Calls \ {1} : sawPending[c] = 1

\* C2: a plain call that reads an entry a production stored with ttl T at
\* createdTime c, and whose freshness check runs at a time now <= c + T,
\* resolves to the stored value, invokes no production and schedules none.
C2_FreshEntryIsServed ==
    \A c \in Calls :
        (/\ ~opts[c].forceFresh
         /\ served[c] = "fresh"
         /\ cached[c].value \notin opts[c].rejects)
        => /\ invoked[c] = 0
           /\ refresh[c] = -1
           /\ Result(c) = Ok(cached[c].value)

\* the second call has read, at createdTime + ttl, what the first one stored
C2_Witness ==
    /\ cached[2] = createCacheEntry(1, createCacheMetaData(1, 0, 0))
    /\ now = 1
    /\ served[2] = "fresh"
    /\ Result(2) = Ok(1)
    /\ invoked = [c \in Calls |-> IF c = 1 THEN 1 ELSE 0]

\* the calls that started a production after hooking into b's pending entry
Hooked(b) == {d \in Calls : prev[d] = b}

\* C3 as stated: call b started its own production while the production of a
\* was pending with metadata no longer fresh, and b's production fulfilled
\* before that of a settled; then the callers of a and b resolve to b's value.
C3_LaterFulfilmentWins ==
    \A b \in Calls :
        (/\ beat[b]
         /\ Hooked(b) = {}
         /\ Settled(b) /\ Settled(prev[b]))
        => /\ Result(b) = gfv[b]
           /\ Result(prev[b]) = gfv[b]

\* C3 amended: when the fulfilled freshValue of b reaches the pending entry of
\* the earlier call a it is hooked into before a's own race has settled, the
\* callers of a and b resolve to that value (along a chain a, b, c as well:
\* what c hands to b, b hands to a).
C3_DeliveredFulfilmentWins ==
    \A b \in Calls :
        informed[b]
        => /\ Result(b).st = "ok"
           /\ race[prev[b]] = Result(b)
           /\ Result(prev[b]) \in {Unsettled, Result(b)}

\* a chain of three calls has resolved to the value of the last one
C3_Witness ==
    /\ prev = [c \in Calls |-> c - 1]
    /\ informed[2] /\ informed[3]
    /\ \A c \in Calls : Result(c) = Ok(3)

\* the position of the production that produced value v among the productions
\* started, 0 for a value that was in the store before the first call
StartOrder(v) ==
    IF v \in Calls THEN invoked[v] ELSE 0

\* C4: once a production has fulfilled and its entry is in the store, no step
\* removes that entry or replaces it by the entry of a production that was
\* started earlier.
C4_LateCompletionKeepsLaterEntry ==
    [][\A s \in Slots :
          (/\ store[s].kind = "entry"
           /\ store[s].value \in Calls
           /\ gfv[store[s].value] = Ok(store[s].value)
           /\ store'[s] # store[s])
          => /\ store'[s].kind = "entry"
             /\ StartOrder(store'[s].value) > StartOrder(store[s].value)]_vars

\* the calls that started a production in the chain of hooks that ends in c
RECURSIVE HookedWithin(_, _)
HookedWithin(c, n) ==
    IF n = 0 THEN {}
    ELSE Hooked(c) \cup UNION {HookedWithin(d, n - 1) : d \in Hooked(c)}

After(c) == HookedWithin(c, MaxCalls)

\* C5 as stated: the callers of two productions of one chain receive a single
\* value, whichever of the two was started first.
C5_SingleValueForChain ==
    \A b \in Calls :
        (prev[b] # NoCall /\ Result(b).st = "ok" /\ Result(prev[b]).st = "ok")
        => Result(b) = Result(prev[b])

\* C5 amended: the caller of a production receives the outcome of that
\* production or the fulfilled value of a production started later in its
\* chain; it never receives the outcome of an earlier production, and never
\* the rejection of another one.
C5_OwnOrLaterFulfilment ==
    \A c \in Producers :
        Settled(c)
        => \/ Result(c) = gfv[c]
           \/ \E d \in After(c) : gfv[d] = Ok(d) /\ Result(c) = gfv[d]

\* in a chain of three the second value went back to the first caller, and the
\* caller of the third production received its own value
C5_Witness ==
    /\ prev = [c \in Calls |-> c - 1]
    /\ Result(1) = Ok(2)
    /\ Result(2) = Ok(2)
    /\ Result(3) = Ok(3)

C6_WitnessExpired ==
    \E c \in Calls :
        served[c] = "expired" /\ sawPending[c] = NoCall /\ Result(c) = Ok(c)

Threw(c) ==
    invoked[c] > 0 /\ gpc[c] # "production" /\ producedAt[c] = -1

\* C8: a call whose production function threw resolves to the stored value if
\* it is forced, its fallback allowance is positive, the store held an entry
\* and the entry's age was within the allowance; otherwise it rejects with
\* what the production threw.
C8_FallbackIffAllowed ==
    \A c \in Calls :
        (Threw(c) /\ Settled(c))
        => IF /\ opts[c].forceFresh
              /\ fallbackToCacheOf(opts[c].fallbackToCache) > 0
              /\ cached[c].kind = "entry"
              /\ fallbackAt[c] - cached[c].metadata.createdTime
                     <= fallbackToCacheOf(opts[c].fallbackToCache)
           THEN Result(c) = Ok(cached[c].value)
           ELSE Result(c) = Thrown(c)

\* C9: a forced call with a numeric fallback allowance that fell back to the
\* cache resolved to a value produced no longer before the call than allowed.
C9_FallbackValueWithinAllowance ==
    \A c \in Calls :
        (/\ opts[c].forceFresh
         /\ opts[c].fallbackToCache.t = "number"
         /\ Threw(c)
         /\ Result(c).st = "ok")
        => /\ Result(c).v \in Calls
           /\ metadata[c].createdTime - producedAt[Result(c).v] <= opts[c].fallbackToCache.n

\* C10: a forced call whose production threw and whose fallback read of the
\* store failed rejects with what the production threw.
C10_OriginalErrorAfterFailedRead ==
    \A c \in Calls :
        (/\ Threw(c)
         /\ fallbackAt[c] >= 0
         /\ cached[c].kind \in {"error", "malformed"}
         /\ Settled(c))
        => Result(c) = Thrown(c)

\* the reason the validator of call c gives for a value it rejects
ReasonOf(c) ==
    IF opts[c].rejectAs = "false" THEN "unknown" ELSE opts[c].rejectAs

\* the validator of call c has rejected the value its production returned
FreshValueRejected(c) ==
    producedAt[c] >= 0 /\ c \in opts[c].rejects

\* C11 as stated: when the validator rejects a freshly produced value, the
\* call rejects with the 'check failed for fresh value' error whose cause is
\* the reason, the store is not written, and the pending entry is removed.
C11_RejectedFreshValueRejectsCall ==
    \A c \in Calls :
        FreshValueRejected(c)
        => /\ Settled(c) => Result(c) = CheckFailed(c, ReasonOf(c))
           /\ wrote[c] = "no"
           /\ store[Slot(c)].value # c
           /\ Settled(c) => pending[Slot(c)] # c

\* C11 amended: when the validator rejects a freshly produced value, the
\* production of the call rejects with the 'check failed for fresh value'
\* error whose cause is the reason, the store is not written and the pending
\* entry is removed; the call rejects with that error unless a production
\* started later for the key has handed it a value before.
C11_RejectedFreshValueFailsProduction ==
    \A c \in Calls :
        FreshValueRejected(c)
        => /\ gfv[c] = CheckFailed(c, ReasonOf(c))
           /\ Settled(c)
              => \/ Result(c) = gfv[c]
                 \/ \E d \in After(c) : gfv[d] = Ok(d) /\ Result(c) = gfv[d]
           /\ wrote[c] = "no"
           /\ store[Slot(c)].value # c
           /\ Settled(c) => pending[Slot(c)] # c

\* the validator of the first call has rejected the produced value with a
\* reason, the call has rejected with it, and nothing was stored or is pending
C11_Witness ==
    /\ FreshValueRejected(1)
    /\ Result(1) = CheckFailed(1, "invalid")
    /\ store[Slot(1)] = EmptyEntry
    /\ pending[Slot(1)] = NoCall

\* C12: every value a call resolves with has been accepted by the validator
\* of that call, also a value taken from the pending production of another
\* call and a value handed over by a later call.
C12_ResolvedValuePassedOwnValidator ==
    \A c \in Calls :
        Result(c).st = "ok" => checkValue(opts[c], Result(c).v).success

\* the entry call c read was structurally malformed, or was not expired and
\* rejected by the validator of c
ReadUnusable(c) ==
    /\ ~opts[c].forceFresh
    /\ pc[c] \notin {"idle", "get", "check"}
    /\ \/ cached[c].kind = "malformed"
       \/ /\ cached[c].kind = "entry"
          /\ served[c] # "expired"
          /\ cached[c].value \in opts[c].rejects

\* C13: a plain call that read a malformed entry, or one whose value its
\* validator rejects, has deleted the key before it turns to the production,
\* goes on as on a cache miss (its own production or the pending one), and
\* resolves to a freshly produced value: it does not reject unless a validator
\* rejects the fresh value.
C13_UnusableEntryIsDeletedAndReplaced ==
    \A c \in Calls :
        ReadUnusable(c)
        => /\ store[Slot(c)] # cached[c]
           /\ pc[c] = "delete" => invoked[c] = 0 /\ waitOn[c] = NoCall
           /\ pc[c] = "await" => waitOn[c] # NoCall /\ invoked[waitOn[c]] > 0
           /\ Settled(c)
              => /\ Result(c).kind \in {"value", "check failed"}
                 /\ Result(c).st = "ok" => Result(c).v \in Producers
                 /\ (\A d \in Calls : ~FreshValueRejected(d)) => Result(c).st = "ok"

\* two calls read an entry their validators reject, the first one deleted the
\* key and produced, and both resolved to the value that is now stored
C13_Witness ==
    /\ cached[1] = ValidEntry /\ ReadUnusable(1)
    /\ cached[2] = ValidEntry /\ ReadUnusable(2)
    /\ Result(1) = Ok(1) /\ Result(2) = Ok(1)
    /\ store[Slot(1)] = createCacheEntry(1, metadata[1])

\* a call read something that is no cache entry and resolved to its own value
C13_WitnessMalformed ==
    /\ cached[1] = Malformed /\ ReadUnusable(1)
    /\ Result(1) = Ok(1)
    /\ store[Slot(1)] = createCacheEntry(1, metadata[1])

\* C14: when cache.set threw after a production whose value passed the
\* validator, the call resolves to the produced value and the store holds no
\* entry of that call; as long as no write has succeeded, no plain call is
\* served an entry, and one that finds no pending value invokes its production.
C14_FailedWriteIsNotFatal ==
    \A c \in Calls :
        wrote[c] = "threw"
        => /\ gpc[c] = "done" => gfv[c] = Ok(c)
           /\ Settled(c) => Result(c) = Ok(c)
           /\ store[Slot(c)].value # c
           /\ \A d \in Calls : cached[d].value # c
           /\ (\A e \in Calls : wrote[e] # "set")
              => \A d \in Calls :
                     (pc[d] = "await" /\ Slot(d) = Slot(c) /\ sawPending[d] = NoCall)
                     => invoked[d] > 0

\* the write of the first call threw, the call resolved to its value, and the
\* second call, made after the first production had returned, found nothing
\* stored and nothing pending and produced again
C14_Witness ==
    /\ wrote[1] = "threw" /\ Result(1) = Ok(1)
    /\ metadata[2].createdTime > producedAt[1]
    /\ store[Slot(1)] = EmptyEntry
    /\ cached[2] = EmptyEntry /\ sawPending[2] = NoCall
    /\ invoked[2] = 2 /\ Result(2) = Ok(2)

\* C15: whatever the store's get, set and delete throw, no foreground call
\* whose production function returns a value that passes the validator rejects.
C15_StoreFaultsNeverRejectACall ==
    \A c \in Calls :
        ~opts[c].background => Result(c).st # "err"

\* the ttl of call c, as given or as set by its production function, is negative
NegativeTtl(c) ==
    metadata[c].ttl # Null /\ metadata[c].ttl < 0

\* the production of call c has returned and its value has been checked
Produced(c) ==
    producedAt[c] >= 0

\* C16: the value of a call whose ttl is negative, given in the options or set
\* by the production function, is not written to the store, whatever the stale
\* window, and is returned to the caller.
C16_NegativeTtlIsNeverWritten ==
    \A c \in Calls :
        (Produced(c) /\ NegativeTtl(c))
        => /\ wrote[c] = "skipped"
           /\ store[Slot(c)].value # c
           /\ gfv[c] = Ok(c)

BatchCalls ==
    {c \in Calls : opts[c].param # 0 /\ ~opts[c].background}

\* each producer function was handed to one call, each call has its own key
OneCallPerKey ==
    \A c, d \in BatchCalls : c # d => opts[c].key # opts[d].key

\* the parameters the bulk producer was invoked with
BulkParams ==
    {batch.params[i] : i \in 1 .. Len(batch.params)}

\* the calls, refreshes included, that invoked the producer function of param
InvokersOf(param) ==
    {d \in Calls : opts[d].param = param /\ invoked[d] > 0}

\* the bulk producer was invoked with the parameters whose producer functions
\* were invoked, in the order of their invocation
InvokedInOrder ==
    /\ BulkParams = {param \in Calls : InvokersOf(param) # {}}
    /\ \A i, j \in 1 .. Len(batch.params) :
           i < j => \E d \in InvokersOf(batch.params[i]), e \in InvokersOf(batch.params[j]) :
                        invoked[d] < invoked[e]

\* each call that invoked its producer function and has resolved got the
\* result the bulk producer returned for its parameter
ResolvedByPosition ==
    \A c \in BatchCalls :
        (invoked[c] > 0 /\ Settled(c)) => Result(c) \in {Ok(opts[c].param), Thrown(BatchError)}

\* call c was served the stored entry of its key
ServedFromCache(c) ==
    /\ cached[c].kind = "entry"
    /\ served[c] \in {"fresh", "stale"}
    /\ result[c] = Ok(cached[c].value)

\* C18 as stated: the bulk producer of an auto-submit batch is invoked with
\* exactly the parameters whose producer functions were invoked, in that
\* order; a parameter whose call was served from the cache counts toward
\* completion and is not passed; each call resolves to the result at the
\* position of its parameter.
C18_BulkParamsAreTheInvokedOnes ==
    OneCallPerKey
    => /\ batch.invocations > 0 => InvokedInOrder
       /\ \A c \in BatchCalls :
              ServedFromCache(c)
              => opts[c].param \in batch.handled /\ opts[c].param \notin BulkParams
       /\ ResolvedByPosition

\* C18 amended: as stated for a call served a fresh entry; the parameter of a
\* call served a stale entry counts toward completion only when the refresh
\* of that call invokes the producer function, and is then passed to the
\* bulk producer with the others.
C18_BulkParamsAreTheInvokedOnesOrRefreshed ==
    OneCallPerKey
    => /\ batch.invocations > 0 => InvokedInOrder
       /\ \A c \in BatchCalls :
              /\ (ServedFromCache(c) /\ served[c] = "fresh")
                 => opts[c].param \in batch.handled /\ opts[c].param \notin BulkParams
              /\ (ServedFromCache(c) /\ served[c] = "stale")
                 => /\ refresh[c] >= 0
                    /\ opts[c].param \in batch.handled
                       <=> \E d \in Children(c) : invoked[d] > 0
                    /\ batch.invocations > 0 => opts[c].param \in BulkParams
       /\ ResolvedByPosition

\* of three calls the second was served a fresh entry, the bulk producer was
\* invoked with the parameters of the others, and each got its own result
C18_Witness ==
    /\ BatchCalls = Calls /\ OneCallPerKey
    /\ ServedFromCache(2) /\ served[2] = "fresh"
    /\ batch.params = <<1, 3>>
    /\ Result(1) = Ok(1) /\ Result(2) = Ok(0) /\ Result(3) = Ok(3)

\* the second call was served a stale entry, its refresh invoked the producer
\* function, and the bulk producer was invoked with both parameters
C18_WitnessStale ==
    /\ ServedFromCache(2) /\ served[2] = "stale"
    /\ Children(2) = {3}
    /\ batch.params = <<1, 2>>
    /\ Result(1) = Ok(1) /\ Result(2) = Ok(0) /\ Result(3) = Ok(2)

\* every producer function that was added was handed to a call, and every
\* one of these calls was served the stored entry of its key
AllServedFromCache ==
    /\ BatchCalls # {}
    /\ \A c \in Calls : pc[c] # "added"
    /\ \A c \in BatchCalls : ServedFromCache(c)

\* an add made after the submission has started throws
AddThrowsAfterSubmission ==
    \A c \in Calls :
        (pc[c] = "idle" /\ pc'[c] \in {"added", "add threw"})
        => (batch.submitted <=> pc'[c] = "add threw")

\* C19 as stated: the bulk producer is invoked at most once, not at all when
\* every added producer was served from the cache, and every add made after
\* the submission has started throws.
C19_SubmittedOnce ==
    /\ [](batch.invocations <= 1)
    /\ [](AllServedFromCache => batch.invocations = 0)
    /\ [][AddThrowsAfterSubmission]_vars

\* C19 amended: the bulk producer is invoked at most once, not at all when
\* every added producer was served a fresh entry (the refresh of a call
\* served a stale entry invokes the producer function, and with it the bulk
\* producer), and every add made after the submission has started throws.
C19_SubmittedOnceUnlessRefreshed ==
    /\ [](batch.invocations <= 1)
    /\ []((AllServedFromCache /\ \A c \in BatchCalls : served[c] = "fresh")
           => batch.invocations = 0 /\ batch.submitted)
    /\ [][AddThrowsAfterSubmission]_vars

\* the only call was served a fresh entry, the batch was submitted without
\* an invocation of the bulk producer, and the next add threw
C19_Witness ==
    /\ BatchCalls = {1} /\ ServedFromCache(1) /\ served[1] = "fresh"
    /\ batch.submitted /\ batch.invocations = 0
    /\ pc[2] = "add threw"

\* the bulk producer was invoked for two calls and the third add threw
C19_WitnessInvoked ==
    /\ batch.invocations = 1 /\ batch.params = <<1, 2>>
    /\ pc[3] = "add threw"

\* the calls whose invocations of a producer function are enqueued in the batch
Enqueued ==
    {batch.requests[i][2] : i \in 1 .. Len(batch.requests)}

\* C20: when the bulk producer has thrown, every request enqueued in the batch
\* is rejected with what it threw, and every call that uses one of these
\* producer functions, having no fallback, has rejected with it or is about to.
C20_BulkErrorRejectsAll ==
    batch.outcome = "threw"
    => /\ \A c \in Enqueued : request[c] = Thrown(BatchError)
       /\ \A c \in Calls :
              (pc[c] = "await" /\ waitOn[c] \in Enqueued)
              => /\ gfv[waitOn[c]] \in {Unsettled, Thrown(BatchError)}
                 /\ Result(c) \in {Unsettled, Thrown(BatchError)}

\* the bulk producer threw for three calls and all of them rejected with it
C20_Witness ==
    /\ batch.outcome = "threw" /\ batch.params = <<1, 2, 3>>
    /\ \A c \in Calls : Result(c) = Thrown(BatchError)

\* the calls whose producer function was added and has neither been invoked
\* nor been passed over by a call that was served the stored entry
Outstanding ==
    {c \in Calls : pc[c] = "added"}
    \cup {c \in BatchCalls : InvokersOf(opts[c].param) = {} /\ ~ServedFromCache(c)}

\* as Outstanding, a call served a stale entry being outstanding until its
\* refresh invokes the producer function
OutstandingOrStale ==
    {c \in Calls : pc[c] = "added"}
    \cup {c \in BatchCalls :
             /\ InvokersOf(opts[c].param) = {}
             /\ ~(ServedFromCache(c) /\ served[c] = "fresh")}

\* C21 as stated: with autoSubmit false the bulk producer is not invoked
\* before submit was called; once submit was called, the bulk call has run
\* exactly when no added producer is outstanding (each was invoked or its
\* call served from the cache) and some producer was invoked; the promise of
\* submit is resolved only after the bulk call has completed.
C21_ManualSubmitWaitsForProducers ==
    /\ batch.invocations > 0 => batch.submitCalls > 0
    /\ batch.submitCalls > 0
       => (batch.invocations = 1 <=> (Outstanding = {} /\ Enqueued # {}))
    /\ batch.promise = "resolved"
       => /\ Outstanding = {}
          /\ batch.invocations = 0 \/ batch.outcome # "none"

\* C21 amended: as stated, a producer whose call was served a stale entry
\* being outstanding until the refresh of that call has invoked it.
C21_ManualSubmitWaitsForProducersAndRefreshes ==
    /\ batch.invocations > 0 => batch.submitCalls > 0
    /\ batch.submitCalls > 0
       => (batch.invocations = 1 <=> (OutstandingOrStale = {} /\ Enqueued # {}))
    /\ batch.promise = "resolved"
       => /\ OutstandingOrStale = {}
          /\ batch.invocations = 0 \/ batch.outcome # "none"

\* submit was called while the third producer was outstanding, the bulk call
\* ran when it was invoked, and the promise of submit is resolved
C21_Witness ==
    /\ batch.submitCalls = 1 /\ batch.autoSubmit
    /\ batch.params = <<1, 2, 3>> /\ batch.outcome = "returned"
    /\ batch.promise = "resolved"
    /\ \A c \in Calls : Result(c) = Ok(c)

\* the sum of a ttl and a stale window as metadata holds them: null is Infinity
StoredSum(t, s) ==
    IF t = Null \/ s = Null THEN Null ELSE t + s

\* C22: the entry softPurge has written has the value and the createdTime of
\* the entry it read (createdTime c, ttl t, stale window s), ttl 0, and the
\* stale window t + s (infinite when t or s is) when no stale window was
\* given to overwrite with, and w + (now - c) for the given stale window w.
C22_PurgedEntryKeepsItsLifetime ==
    purge.at >= 0 =>
        LET m == purge.entry.metadata
            written == purge.written
        IN  /\ written.kind = "entry"
            /\ written.value = purge.entry.value
            /\ written.metadata.createdTime = m.createdTime
            /\ written.metadata.ttl = 0
            /\ written.metadata.swr =
                   IF purge.swr = Undefined
                   THEN StoredSum(m.ttl, m.swr)
                   ELSE purge.swr + (purge.at - m.createdTime)

\* C23: a softPurge that read no malformed entry leaves the store as it is
\* exactly when the key was empty or its entry already expired, and an entry
\* past its ttl but inside its stale window is written back with ttl 0
\* (expired and stale as isExpired tells them apart).
C23_PurgeSkipsOnlyEmptyAndExpired ==
    (purge.seen # "none" /\ purge.entry.kind # "malformed") =>
        /\ (purge.at = -1) <=> (purge.seen \in {"empty", "expired"})
        /\ purge.seen = "stale" =>
               (purge.at >= 0 /\ purge.written.metadata.ttl = 0)

\* the calls whose cache.get returned the entry softPurge has written and
\* whose getCachedValue ran before the stale window of that entry ended
ReadPurgedInTime ==
    {c \in Calls : /\ purge.at >= 0
                   /\ ~opts[c].forceFresh
                   /\ cached[c] = purge.written
                   /\ served[c] \in {"fresh", "stale"}}

\* C24: a call that is not forced and reads the entry softPurge has written
\* before the stale window of that entry has ended resolves to the old value
\* and has scheduled a background refresh, whatever ttl the entry had,
\* whatever the time since its createdTime and whatever staleWhileRevalidate
\* the call is configured with.
C24_PurgedEntryIsServedAndRefreshed ==
    \A c \in ReadPurgedInTime :
        /\ Result(c) = Ok(purge.entry.value)
        /\ refresh[c] >= 0

\* the softPurge call has read what is not a cache entry
PurgeReadMalformed ==
    purge.pc # "idle" /\ purge.entry.kind = "malformed"

\* C25: softPurge on a key whose stored entry is structurally malformed
\* rejects with the structural error, and the step in which it does neither
\* writes to nor deletes from the store: the store is left as it is (a
\* cachified call that reads the same entry deletes the key and produces).
C25_MalformedEntryRejectsAndStays ==
    /\ [](PurgeReadMalformed /\ purge.pc = "done" =>
              purge.outcome = "structural" /\ purge.at = -1)
    /\ [][PurgeReadMalformed /\ purge' # purge => store' = store]_vars

\* softPurge has rejected with the structural error and the store still holds
\* what is not a cache entry
C25_Witness ==
    /\ PurgeReadMalformed
    /\ purge.outcome = "structural"
    /\ store[<<purge.cache, purge.key>>] = Malformed

\* C28: isExpired classifies fresh when ttl is null or now <= createdTime +
\* ttl, stale when createdTime + ttl < now <= createdTime + ttl +
\* staleWhileRevalidate (a stored null is Infinity), expired otherwise, and a
\* negative staleWhileRevalidate classifies like staleWhileRevalidate = 0.
C28_ClassificationIsAsSpecified ==
    probe.expired # "none" =>
        /\ probe.expired = Classify(probe.metadata, probe.now)
        /\ (probe.metadata.swr # Null /\ probe.metadata.swr < 0) =>
               probe.expired = isExpired([probe.metadata EXCEPT !.swr = 0], probe.now)

\* C29: metadata with a finite ttl and a stale window stored as null
\* (Infinity) is classified stale at every time after createdTime + ttl,
\* Infinity included, never expired.
C29_InfiniteStaleWindowNeverExpires ==
    (/\ probe.expired # "none"
     /\ probe.metadata.ttl # Null
     /\ probe.metadata.swr = Null
     /\ probe.now > probe.metadata.createdTime + probe.metadata.ttl) =>
        probe.expired = "stale"

\* the calls whose task to write the migrated value back has run to its end
\* while no other call was made and nothing was purged
MigratedAlone ==
    {c \in Calls : rewrite[c].pc = "done" /\ Started = {c} /\ purge.pc = "idle"}

\* C26: a call whose validator has migrated the cached value, with no other
\* write, delete or production for the key, resolves to the migrated value
\* without having invoked its production, and once its task to write the
\* value back has run the store holds the migrated value with the metadata
\* of the entry the call read, whatever the time between the createdTime of
\* the entry and the call.
C26_MigratedValueIsWrittenBack ==
    \A c \in MigratedAlone :
        /\ Result(c) = Ok(Migrated(cached[c].value))
        /\ invoked[c] = 0
        /\ store[Slot(c)] = [cached[c] EXCEPT !.value = Migrated(cached[c].value)]

\* a production for the key of s is in flight
InFlight(s) ==
    \E d \in Calls : Slot(d) = s /\ gpc[d] = "production"

\* the step in which the task of call c writes the migrated value to the store
RewriteWrites(c) ==
    /\ rewrite[c].pc = "get"
    /\ rewrite'[c].pc = "done"
    /\ store'[Slot(c)] # store[Slot(c)]

\* C27: the task that writes a migrated value back only overwrites the entry
\* the migrating call read, never one written since, and never writes while
\* a production for the key is in flight.
C27_RewriteSparesNewerEntries ==
    [][\A c \in Calls :
           RewriteWrites(c) => (store[Slot(c)] = cached[c] /\ ~InFlight(Slot(c)))]_vars

\* the calls, not forced and configured with staleWhileRevalidate Infinity,
\* that read a cache entry past its ttl whose value their validator accepts
ReadPastTtl ==
    {c \in Calls : /\ ~opts[c].forceFresh
                   /\ staleWhileRevalidateOf(opts[c]) = Infinity
                   /\ served[c] \in {"stale", "expired"}
                   /\ cached[c].kind = "entry"
                   /\ checkValue(opts[c], cached[c].value).success}

\* C30: a call that is not forced and is configured with staleWhileRevalidate
\* Infinity resolves to the value of the entry it read past its ttl, however
\* old the entry is, provided its validator accepts the value, without
\* invoking or awaiting a production, and has scheduled a background refresh.
C30_InfiniteStaleWindowServesAnyAge ==
    \A c \in ReadPastTtl :
        /\ Result(c) = Ok(cached[c].value)
        /\ result[c] = Result(c)
        /\ invoked[c] = 0
        /\ waitOn[c] = NoCall
        /\ refresh[c] >= 0

\* in the far future a call was served an entry written without a stale
\* window, and the refresh it scheduled has been started
C30_Witness ==
    \E c \in ReadPastTtl :
        /\ now = Infinity
        /\ served[c] = "expired"
        /\ cached[c].metadata.swr = 0
        /\ Result(c) = Ok(cached[c].value)
        /\ Children(c) # {}

\* the call c takes a step
Acts(c) ==
    \/ pc'[c] # pc[c]
    \/ gpc'[c] # gpc[c]
    \/ fresh'[c] # fresh[c]

\* C31: a step of a call for key k on store s changes the store and the
\* registry of pending values at (s, k) only and reads the store at (s, k)
\* only, and the pending value a call takes or feeds was registered for its
\* own key on its own store.
C31_OtherKeysAndStoresUntouched ==
    /\ [](\A c \in Calls :
              /\ waitOn[c] # NoCall =>
                     <<opts[waitOn[c]].cache, opts[waitOn[c]].key>>
                         = <<opts[c].cache, opts[c].key>>
              /\ prev[c] # NoCall =>
                     <<opts[prev[c]].cache, opts[prev[c]].key>>
                         = <<opts[c].cache, opts[c].key>>)
    /\ [][\A c \in Calls : Acts(c) =>
              /\ \A s \in Slots :
                     (store'[s] # store[s] \/ pending'[s] # pending[s])
                         => s = <<opts'[c].cache, opts'[c].key>>
              /\ cached'[c] # cached[c] =>
                     cached'[c] = store[<<opts'[c].cache, opts'[c].key>>]]_vars

\* calls for both keys of the first store and for the first key of the second
\* have produced and written while an entry of the second store was left alone
C31_Witness ==
    /\ store[<<"s1", "k1">>].value = 1
    /\ store[<<"s1", "k2">>].value = 2
    /\ store[<<"s2", "k1">>].value = 3
    /\ store[<<"s2", "k2">>].value = 5
    /\ \A s \in Slots : pending[s] = NoCall

\* C32: a call that got no usable cached value takes the pending value of its
\* key exactly when one is registered whose metadata, as its production
\* function has left it, is fresh at that moment; when there is none, or its
\* metadata is stale or expired, the call invokes its own production.
C32_PendingReusedIffFresh ==
    \A c \in {d \in Calls : waitOn[d] # NoCall} :
        /\ (waitOn[c] # c) <=> (sawPending[c] # NoCall)
        /\ sawPending[c] # NoCall => (waitOn[c] = sawPending[c] /\ invoked[c] = 0)
        /\ sawPending[c] = NoCall => invoked[c] > 0

\* the second call took the pending value of the first after the ttl the
\* first was made with, the first having extended it, and the third, made
\* after the extended ttl while the first was still producing, produces
C32_Witness ==
    /\ metadata[1].ttl = 3
    /\ metadata[2].createdTime = 2 /\ waitOn[2] = 1
    /\ metadata[3].createdTime = 4 /\ waitOn[3] = 3 /\ prev[3] = 1

\* C33: the pending values hold an entry for a store and key exactly while a
\* production race registered for them is unsettled, and an entry is removed
\* by the settlement of the race that registered it, never by that of another
\* call's race.
C33_PendingEntryLivesWithItsRace ==
    /\ [](\A s \in Slots :
            /\ pending[s] # NoCall => fresh[pending[s]].st = "none"
            /\ pending[s] = NoCall =>
                   \A c \in Calls : (waitOn[c] = c /\ Slot(c) = s) => fresh[c].st # "none")
    /\ [][\A s \in Slots : (pending[s] # NoCall /\ pending'[s] = NoCall)
                => (fresh[pending[s]].st = "none" /\ fresh'[pending[s]].st # "none")]_vars

\* call c is about to be answered from a fresh entry its validator accepts as it is
ReadsFreshAccepted(c) ==
    /\ pc[c] = "get" /\ ~opts[c].forceFresh
    /\ cached[c].kind = "entry"
    /\ Classify(cached[c].metadata, now) = "fresh"
    /\ cached[c].value \notin opts[c].rejects \cup opts[c].migrates

\* C34: a call that is not forced and is served a fresh entry which its
\* validator accepts without migrating it resolves to the stored value and
\* leaves the store and the pending values as they are; it schedules neither
\* a refresh nor a rewrite.
C34_FreshServedCallChangesNothing ==
    [][\A c \in Calls : (Acts(c) /\ ReadsFreshAccepted(c)) =>
            /\ store' = store /\ pending' = pending
            /\ pc'[c] = "done" /\ result'[c] = Ok(cached[c].value)
            /\ invoked'[c] = 0
            /\ refresh'[c] = refresh[c] /\ rewrite'[c] = NoRewrite]_vars

\* the third call was served the value the first, forced call had written
\* while the production of the second, forced call was pending
C34_Witness ==
    /\ pc[3] = "done" /\ ~opts[3].forceFresh /\ served[3] = "fresh"
    /\ cached[3].value = 1 /\ result[3] = Ok(1) /\ invoked[3] = 0
    /\ pending[<<"s1", "k1">>] = 2 /\ store[<<"s1", "k1">>].value = 1

\* the forced calls made while a pending value with fresh metadata was
\* registered for their store and key
ForcedOnPending ==
    {c \in Calls : pc[c] # "idle" /\ opts[c].forceFresh /\ sawPending[c] # NoCall}

\* C35: a forced call made while a production of its store and key is pending
\* with fresh metadata invokes no production of its own and has the outcome
\* of the pending value.
C35_ForcedCallTakesFreshPending ==
    \A c \in ForcedOnPending :
        /\ invoked[c] = 0 /\ gpc[c] = "none"
        /\ pending[Slot(c)] # c
        /\ Result(c) = fresh[sawPending[c]]

\* the second call, forced, was made while the production of the first was
\* pending for the same key and has got the value the first produced
C35_Witness ==
    /\ 2 \in ForcedOnPending /\ sawPending[2] = 1
    /\ Slot(2) = Slot(1)
    /\ invoked[1] > 0 /\ fresh[1].st = "ok" /\ Result(2) = fresh[1]

\* the calls whose pending value has rejected
RejectedPending ==
    {p \in Calls : waitOn[p] = p /\ fresh[p].st = "err"}

\* C36: when a pending value rejects, every call that took it rejects with
\* the same error and has invoked no production, the production has written
\* nothing, the rejection removes the pending entry of the key, and a call
\* that comes to the pending values of the key after that invokes its own
\* production.
C36_RejectedPendingIsNotCached ==
    /\ [](\A p \in RejectedPending :
            /\ wrote[p] \notin {"set", "threw", "skipped"}
            /\ \A c \in Calls \ {p} : waitOn[c] = p =>
                   /\ Result(c) = fresh[p] /\ Result(c).st = "err"
                   /\ invoked[c] = 0)
    /\ [][\A p \in Calls :
            /\ (waitOn[p] = p /\ fresh[p].st = "none" /\ fresh'[p].st = "err")
                  => (pending'[Slot(p)] = NoCall /\ store' = store)
            /\ (p \in RejectedPending /\ pending[Slot(p)] = NoCall) =>
                  \A c \in Calls :
                      (waitOn[c] = NoCall /\ waitOn'[c] # NoCall /\ Slot(c)' = Slot(p))
                          => (invoked'[c] > 0 /\ waitOn'[c] = c)]_vars

\* the production of the first call threw while the second call was waiting
\* for it, both have rejected, and the third call, made after that, produced
C36_Witness ==
    /\ 1 \in RejectedPending /\ waitOn[2] = 1
    /\ store[<<"s1", "k1">>].kind = "entry"
    /\ waitOn[3] = 3 /\ prev[3] = NoCall /\ fresh[3].st = "ok"

\* C37: a call made by the application causes at most one invocation of its
\* production function, counting its own invocation and that of the
\* background refresh it schedules.
C37_AtMostOneProduction ==
    \A p \in Calls :
        (pc[p] # "idle" /\ ~opts[p].background)
            => Cardinality({d \in {p} \cup Children(p) : invoked[d] > 0}) <= 1

\* C38: once the bulk producer has returned, the promise of every invocation
\* of a producer function of the batch eventually settles.
C38_ProducerPromisesSettle ==
    \A c \in Calls :
        (batch.outcome = "returned" /\ c \in Enqueued) ~> (request[c].st # "none")

\* C39: with auto-submit, the producer function of an earlier add being
\* invoked before a later add is made, as a forced call does, does not submit
\* the batch: no add of the run throws, the batch is not submitted while the
\* application is making its calls, and the bulk producer is invoked once,
\* with the parameter of every producer function that is invoked.
C39_ForcedCallDoesNotSubmitEarly ==
    /\ \A c \in Calls : pc[c] # "add threw"
    /\ batch.submitted => Mapped
    /\ batch.invocations <= 1
    /\ batch.invocations = 1 =>
           \A c \in Enqueued : \E i \in 1 .. Len(batch.params) : batch.params[i] = c

\* C40: the store and the productions returning or throwing, every call
\* eventually settles, and once no call for a store and key is in progress
\* the pending values eventually hold no entry for them.
C40_CallsSettleAndPendingEmpties ==
    /\ \A c \in Calls : (c \in Started) ~> Settled(c)
    /\ \A s \in Slots :
           (\A c \in Started : Slot(c) = s => Settled(c)) ~> (pending[s] = NoCall)

\* both calls of the application and a background refresh have settled, one
\* of them on the pending value of another and one by rejecting, and no
\* pending value is left
C40_Witness ==
    /\ Started = Calls /\ \A c \in Calls : Settled(c)
    /\ \E c \in Calls : waitOn[c] \notin {NoCall, c}
    /\ \E c \in Calls : Result(c).st = "err"
    /\ \E c \in Calls : opts[c].background
    /\ \A s \in Slots : pending[s] = NoCall

=============================================================================
